---- MODULE Spec2Model ----
(***************************************************************************)
(* memorybench run engine: the concurrency resolver                        *)
(* (src/src/types/concurrency.ts) and the indexing phase runner with its   *)
(* progress tracker (src/unnamed/part_000), driven by the providers'       *)
(* awaitIndexing (supermemory, mem0, agent-memory); and the LoCoMo session *)
(* ingest script with its checkpoint file                                  *)
(* (src/benchmarks/LoCoMo/scripts/ingest/ingest.ts, utils/checkpoint.ts).  *)
(***************************************************************************)
EXTENDS Integers, Sequences, FiniteSets, TLC

VARIABLES
  \* ---- resolveConcurrency, applied to drawn inputs ----
  rPhase,        \* the phase argument
  rCli,          \* the cliConfig argument (run-level override)
  rProv,         \* the providerDefault argument
  rResult,       \* the value returned
  rDone,         \* TRUE once the function has been applied
  \* ---- runIndexingPhase ----
  ingest,        \* per question: phases.ingest (status, ingestResult)
  checkpoint,    \* per question: phases.indexing, as persisted
  provider,      \* which Provider implementation the run uses
  clientReady,   \* SupermemoryProvider.client is set (initialize was called)
  runner,        \* "idle" | "executing" | "returned" | "threw" | "crashed"
  runs,          \* number of invocations of runIndexingPhase so far
  questionIds,   \* the optional questionIds argument
  cpAtStart,     \* the checkpoint as it was when the current invocation began
  toIndex,       \* the eligible questions, in checkpoint order
  concurrency,   \* the value handed to ConcurrentExecutor.execute
  nextIdx,       \* executor: index in toIndex of the next item to dispatch
  inflight,      \* executor: units of work started and not yet ended
  fatal,         \* executor: a unit of work has thrown
  pc,            \* per question: position of its unit of work
  call,          \* per question: awaitIndexing's locals (pending, completedIds, failedIds)
  progress,      \* per question: the argument of the onProgress call being handled
  lastProgress,  \* per question: the callback's lastProgress
  tracker,       \* IndexingProgressTracker.progressByQuestion
  totalEpisodes, \* IndexingProgressTracker.totalEpisodes
  lastDisplayed, \* IndexingProgressTracker.lastDisplayed
  awaited,       \* questions provider.awaitIndexing was called for in this invocation
  wrote,         \* TRUE once updatePhase was called in this invocation
  errors,        \* the Errors thrown by units of work in this invocation
  stop,          \* the run-level stop request, as the executor sees it
  \* ---- LoCoMo ingest script (one conversation, one run id) ----
  checkpointFile, \* the checkpoint file: whether it exists and its JSON text
  sessions,       \* checkpoint.sessions of the running (or last) process
  sessionIdx,     \* the loop variable i of runIngestion, counted from 1
  ingestPc,       \* position of the script
  ingestRuns,     \* number of times the script was started
  loaded,         \* checkpoint.sessions as they were when the loop began
  posted,         \* per session: what this process's attempt met ("none" if not attempted)
  completedCount, \* runIngestion's counters
  failedCount,
  skippedCount,
  exitCode,       \* the status of process.exit, -1 while there is none
  \* ---- IndexingProgressTracker, called directly ----
  tOps,           \* number of calls made on the tracker
  tOp,            \* the last call: "new", "update", "markQuestionDone", "getAggregated", "display"
  tArg,           \* the arguments of the last update call
  tAgg,           \* the value the last getAggregated call returned
  tWrites,        \* number of process.stdout.write calls
  tLatest,        \* per question: the counts last given to the tracker
  \* ---- Provider.awaitIndexing, called on its own ----
  aProvider,     \* the Provider implementation
  aClient,       \* SupermemoryProvider.client is set
  aDocs,         \* result.documentIds
  aPc,           \* "idle" | "polling" | "sleeping" | "returned" | "threw"
  aCall,         \* the locals pending, completedIds, failedIds
  aBackoff,      \* the local backoffMs, in units of 1/BackoffScale ms
  aDelay,        \* the delay of the last setTimeout (0 before the first)
  aOut,          \* what the status requests of the last round yielded, per id
  aCb,           \* the argument of the last onProgress call
  aCbs,          \* how many onProgress calls were made: "none" | "one" | "many"
  aBefore,       \* the ids the onProgress calls before the last one carried
  aFirst,        \* the argument of the first onProgress call
  aCbN,          \* number of onProgress calls, counted up to MaxCounted
  aRounds,       \* number of poll rounds, counted up to MaxCounted
  \* ---- LongMemEval search-batch.sh (one run id, type and position range) ----
  bFile,         \* the search checkpoint file: whether it exists, its questions list
  bPc,           \* position of the script
  bIdx,          \* the loop's position in the range, counted from 1
  bRuns,         \* number of times the script was started
  bAtStart,      \* the questions list as it was when the loop began
  bSearched,     \* the questions search.ts was run for in this run
  bResults       \* per position: how this run's search ended ("none" if it did not)

rvars == <<rPhase, rCli, rProv, rResult, rDone>>
ivars == <<ingest, checkpoint, provider, clientReady, runner, runs, questionIds,
           cpAtStart, toIndex, concurrency, nextIdx, inflight, fatal, pc, call,
           progress, lastProgress, tracker, totalEpisodes, lastDisplayed,
           awaited, wrote, errors, stop>>
lvars == <<checkpointFile, sessions, sessionIdx, ingestPc, ingestRuns, loaded,
           posted, completedCount, failedCount, skippedCount, exitCode>>
tvars == <<tOps, tOp, tArg, tAgg, tWrites, tLatest>>
avars == <<aProvider, aClient, aDocs, aPc, aCall, aBackoff, aDelay, aOut, aCb, aCbs,
           aBefore, aFirst, aCbN, aRounds>>
bvars == <<bFile, bPc, bIdx, bRuns, bAtStart, bSearched, bResults>>
vars == <<rvars, ivars, lvars, tvars, avars, bvars>>

(***************************************************************************)
(* Bounds of the model.                                                    *)
(***************************************************************************)
NumQuestions == 3   \* questions in the run checkpoint
RichQuestions == 2  \* questions whose ingest outcome is drawn freely
MaxDocs == 1        \* documentIds per ingest result
MaxTasks == 1       \* taskIds per ingest result
MaxRuns == 2        \* invocations of runIndexingPhase on one run id
MaxVal == 2         \* largest configured concurrency value drawn
MaxIds == 1         \* length of a questionIds argument
MaxElapsed == 1     \* largest Date.now() difference drawn for durationMs

(***************************************************************************)
(* Concurrency resolver.                                                   *)
(***************************************************************************)
PhaseIds == {"ingest", "indexing", "search", "answer", "evaluate"}

ConfigKeys == PhaseIds \cup {"default"}

\* An optional ConcurrencyConfig: absent (undefined), or an object whose
\* defined fields are DOMAIN fields.
NoConfig == [present |-> FALSE, fields |-> [k \in {} |-> 0]]

Config(f) == [present |-> TRUE, fields |-> f]

\* cfg?.[key] !== undefined
Defined(cfg, key) == cfg.present /\ key \in DOMAIN cfg.fields

resolveConcurrencySwapped(phase, cliConfig, providerDefault) ==
  IF Defined(cliConfig, phase) THEN cliConfig.fields[phase]
  ELSE IF Defined(providerDefault, phase) THEN providerDefault.fields[phase]
  ELSE IF Defined(cliConfig, "default") THEN cliConfig.fields["default"]
  ELSE IF Defined(providerDefault, "default") THEN providerDefault.fields["default"]
  ELSE 1

resolveConcurrency(phase, cliConfig, providerDefault) ==
  IF Defined(cliConfig, phase) THEN cliConfig.fields[phase]
  ELSE IF Defined(cliConfig, "default") THEN cliConfig.fields["default"]
  ELSE IF Defined(providerDefault, phase) THEN providerDefault.fields[phase]
  ELSE IF Defined(providerDefault, "default") THEN providerDefault.fields["default"]
  ELSE 1


(***************************************************************************)
(* Data of the indexing runner.                                            *)
(***************************************************************************)
Questions == 1..NumQuestions

EmptyFn == [x \in {} |-> 0]

\* phases.ingest of a question: its status and its ingestResult (absent, or
\* documentIds 1..docs and `tasks` taskIds).
IngestStates ==
  [status : {"failed"}, hasResult : {FALSE}, docs : {0}, tasks : {0}]
  \cup
  [status : {"completed"}, hasResult : {FALSE}, docs : {0}, tasks : {0}]
  \cup
  [status : {"completed"}, hasResult : {TRUE}, docs : 0..MaxDocs, tasks : 0..MaxTasks]

OneDocument == [status |-> "completed", hasResult |-> TRUE, docs |-> 1, tasks |-> 0]

\* The ingest outcomes a run starts from: any outcome for the first
\* RichQuestions questions with the others' ingest failed, or every question
\* ingested into one document.
IngestInputs ==
  {v \in [Questions -> IngestStates] :
     \A q \in Questions : q > RichQuestions => v[q].status = "failed"}
  \cup {[q \in Questions |-> OneDocument]}

documentIds(q) == [i \in 1..ingest[q].docs |-> i]

getEpisodeCount(q) ==
  IF ~ingest[q].hasResult THEN 0 ELSE ingest[q].docs + ingest[q].tasks

\* An IndexingProgress value.
Progress(c, f, t) == [completedIds |-> c, failedIds |-> f, total |-> t]

NoProgress == Progress(<<>>, <<>>, 0)

NoCall == [pending |-> {}, completedIds |-> <<>>, failedIds |-> <<>>]

\* A PhaseState is a record of the fields that have been written so far.
PendingState == [status |-> "pending"]

updatePhaseReplace(cp, q, partial) == [cp EXCEPT ![q] = partial]

\* CheckpointManager.updatePhase: merge the partial state into the PhaseState
\* at (questionId, "indexing") and persist the whole checkpoint.
updatePhase(cp, q, partial) == [cp EXCEPT ![q] = partial @@ cp[q]]

(***************************************************************************)
(* IndexingProgressTracker.                                                *)
(***************************************************************************)
RECURSIVE SumOver(_, _, _)
SumOver(f, S, field) ==
  IF S = {} THEN 0
  ELSE LET x == CHOOSE y \in S : TRUE
       IN f[x][field] + SumOver(f, S \ {x}, field)

RECURSIVE SeqToSet(_)
SeqToSet(s) == IF s = <<>> THEN {} ELSE {Head(s)} \cup SeqToSet(Tail(s))

RECURSIVE SumCounts(_)
SumCounts(S) ==
  IF S = {} THEN 0
  ELSE LET x == CHOOSE y \in S : TRUE
       IN getEpisodeCount(x) + SumCounts(S \ {x})

TrackerNew(qs) ==
  [q \in SeqToSet(qs) |-> [completed |-> 0, failed |-> 0, total |-> getEpisodeCount(q)]]

\* update() as it would be if it added the reported counts to the entry.
TrackerUpdateAdditive(tr, q, p) ==
  IF q \in DOMAIN tr
  THEN [tr EXCEPT ![q] = [completed |-> @.completed + Len(p.completedIds),
                          failed |-> @.failed + Len(p.failedIds),
                          total |-> p.total]]
  ELSE tr

TrackerUpdate(tr, q, p) ==
  IF q \in DOMAIN tr
  THEN [tr EXCEPT ![q] = [completed |-> Len(p.completedIds),
                          failed |-> Len(p.failedIds),
                          total |-> p.total]]
  ELSE tr

markQuestionDone(tr, q) ==
  IF q \in DOMAIN tr
  THEN [tr EXCEPT ![q] = [completed |-> tr[q].total,
                          failed |-> tr[q].failed,
                          total |-> tr[q].total]]
  ELSE tr

getAggregated(tr, tot) ==
  [completed |-> SumOver(tr, DOMAIN tr, "completed"),
   failed |-> SumOver(tr, DOMAIN tr, "failed"),
   total |-> tot]

\* display(): the readout `${completed}/${total}`, written when it differs
\* from lastDisplayed. Returns the new lastDisplayed.
DisplayStr(agg) == <<agg.completed, agg.total>>

display(tr, tot, last) ==
  IF DisplayStr(getAggregated(tr, tot)) # last
  THEN DisplayStr(getAggregated(tr, tot))
  ELSE last


(***************************************************************************)
(* Provider.awaitIndexing: the implementations' polling.                   *)
(***************************************************************************)
Providers == {"supermemory", "mem0", "agent-memory"}

\* What one status request of a poll round can yield.  Supermemory: the
\* request rejects, or it yields the document status and (for a document that
\* is done or failed) the memory status.  Mem0: getEventStatus rejects, or it
\* yields the event status ("UNKNOWN" for a response that is not ok).
SupermemoryOutcomes ==
  {[settled |-> "rejected", docStatus |-> "none", memStatus |-> "none"]}
  \cup
  [settled : {"fulfilled"}, docStatus : {"queued"}, memStatus : {"pending"}]
  \cup
  [settled : {"fulfilled"}, docStatus : {"done", "failed"},
   memStatus : {"processing", "done", "failed"}]

Mem0Outcomes ==
  {[settled |-> "rejected", status |-> "none"]}
  \cup
  [settled : {"fulfilled"}, status : {"PENDING", "SUCCEEDED", "FAILED", "UNKNOWN"}]

\* The classification as it would be if the document status alone decided.
SupermemoryClassifyDocOnly(o) ==
  IF o.settled # "fulfilled" THEN "pending"
  ELSE IF o.docStatus = "failed" THEN "failed"
  ELSE IF o.docStatus = "done" THEN "completed"
  ELSE "pending"

\* Where the round's loop over the settled results puts an id.
SupermemoryClassify(o) ==
  IF o.settled # "fulfilled" THEN "pending"
  ELSE IF o.docStatus = "failed" \/ o.memStatus = "failed" THEN "failed"
  ELSE IF o.docStatus = "done" /\ o.memStatus = "done" THEN "completed"
  ELSE "pending"

Mem0Classify(o) ==
  IF o.settled # "fulfilled" THEN "pending"
  ELSE IF o.status = "SUCCEEDED" THEN "completed"
  ELSE IF o.status = "FAILED" THEN "failed"
  ELSE "pending"

PollOutcomes(prov) == IF prov = "supermemory" THEN SupermemoryOutcomes ELSE Mem0Outcomes

\* The classification as it would be if a failed status left the id pending.
ClassifyIgnoreFailed(prov, o) ==
  IF prov = "supermemory"
  THEN IF SupermemoryClassify(o) = "completed" THEN "completed" ELSE "pending"
  ELSE IF Mem0Classify(o) = "completed" THEN "completed" ELSE "pending"

\* The classification as it would be if whatever is not completed failed.
ClassifyStrict(prov, o) ==
  IF prov = "supermemory"
  THEN IF SupermemoryClassify(o) = "completed" THEN "completed" ELSE "failed"
  ELSE IF Mem0Classify(o) = "completed" THEN "completed" ELSE "failed"

Classify(prov, o) ==
  IF prov = "supermemory" THEN SupermemoryClassify(o) ELSE Mem0Classify(o)

\* s followed by the members of S in increasing order (the order of the
\* pending Set, which keeps the order of documentIds).
RECURSIVE PushAll(_, _)
PushAll(s, S) ==
  IF S = {} THEN s
  ELSE LET m == CHOOSE x \in S : \A y \in S : x <= y
       IN PushAll(Append(s, m), S \ {m})

\* The round as it would be if the lists held only the ids of this round.
PollRoundDelta(prov, c, out) ==
  [pending |-> {d \in c.pending : Classify(prov, out[d]) = "pending"},
   completedIds |-> PushAll(<<>>, {d \in c.pending : Classify(prov, out[d]) = "completed"}),
   failedIds |-> PushAll(<<>>, {d \in c.pending : Classify(prov, out[d]) = "failed"})]

PollRoundKeepPending(prov, c, out) ==
  [pending |-> c.pending,
   completedIds |-> PushAll(c.completedIds,
                       {d \in c.pending : Classify(prov, out[d]) = "completed"}),
   failedIds |-> PushAll(c.failedIds,
                       {d \in c.pending : Classify(prov, out[d]) = "failed"})]

\* One round of the while loop: every pending id is requested, the ids that
\* reached a terminal status leave pending and are pushed to their list.
PollRound(prov, c, out) ==
  [pending |-> {d \in c.pending : Classify(prov, out[d]) = "pending"},
   completedIds |-> PushAll(c.completedIds,
                       {d \in c.pending : Classify(prov, out[d]) = "completed"}),
   failedIds |-> PushAll(c.failedIds,
                       {d \in c.pending : Classify(prov, out[d]) = "failed"})]

(***************************************************************************)
(* runIndexingPhase.                                                       *)
(***************************************************************************)
\* The questionIds argument: absent, or a list of ids.
NoIds == [given |-> FALSE, ids |-> {}]

Ids(S) == [given |-> TRUE, ids |-> S]

\* The filter as it would be if the questionIds argument were ignored.
IsTargetAll(qids, q) == TRUE

IsTarget(qids, q) == ~qids.given \/ q \in qids.ids

EligibleOnlyPendingOrFailed(cp, qids, q) ==
  /\ IsTarget(qids, q)
  /\ ingest[q].status = "completed"
  /\ cp[q].status \in {"pending", "failed"}

EligibleAnyIngest(cp, qids, q) ==
  /\ IsTarget(qids, q)
  /\ cp[q].status # "completed"

EligibleAnyStatus(cp, qids, q) ==
  /\ IsTarget(qids, q)
  /\ ingest[q].status = "completed"

\* The filters that build toIndex.
Eligible(cp, qids, q) ==
  /\ IsTarget(qids, q)
  /\ ingest[q].status = "completed"
  /\ cp[q].status # "completed"

RECURSIVE FilterSeq(_, _, _)
FilterSeq(cp, qids, n) ==
  IF n = 0 THEN <<>>
  ELSE IF Eligible(cp, qids, n)
       THEN Append(FilterSeq(cp, qids, n - 1), n)
       ELSE FilterSeq(cp, qids, n - 1)

ToIndex(cp, qids) == FilterSeq(cp, qids, NumQuestions)

\* The concurrency handed to the executor.
ExecConcurrency(cli, pd) == resolveConcurrency("indexing", cli, pd)

TakesShortcutResultOnly(q) == ~ingest[q].hasResult

\* !ingestResult || episodeCount === 0
TakesShortcut(q) == ~ingest[q].hasResult \/ getEpisodeCount(q) = 0

\* The partial states the unit of work hands to updatePhase.
ShortcutPartial ==
  [status |-> "completed", completedIds |-> <<>>, failedIds |-> <<>>,
   completedAt |-> "now", durationMs |-> 0]

\* The start write as it would be if it left the id lists alone.
StartPartialKeepIds == [status |-> "in_progress", startedAt |-> "now"]

StartPartial ==
  [status |-> "in_progress", completedIds |-> <<>>, failedIds |-> <<>>,
   startedAt |-> "now"]

CallbackPartial(p) ==
  [status |-> "in_progress", completedIds |-> p.completedIds, failedIds |-> p.failedIds]

\* The completed write as it would be if it always wrote empty lists.
CompletedPartialEmpty(lp, d) ==
  [status |-> "completed", completedIds |-> <<>>, failedIds |-> <<>>,
   completedAt |-> "now", durationMs |-> d]

CompletedPartial(lp, d) ==
  [status |-> "completed", completedIds |-> lp.completedIds,
   failedIds |-> lp.failedIds, completedAt |-> "now", durationMs |-> d]

FailedPartialNoStatus == [error |-> "error"]

FailedPartial == [status |-> "failed", error |-> "error"]

\* The Error the catch block throws for a question.
ResumeHint == "Fix the issue and resume with the same run ID."

IndexingErrorNoHint(q, cause) == [questionId |-> q, cause |-> cause, hint |-> ""]

IndexingError(q, cause) == [questionId |-> q, cause |-> cause, hint |-> ResumeHint]


\* The run-level overrides and provider defaults an invocation is given.
RunOverrides ==
  {NoConfig} \cup {Config([k \in {"indexing"} |-> v]) : v \in 1..MaxVal}

ProviderDefaults ==
  {NoConfig} \cup {Config([k \in {"default"} |-> v]) : v \in 1..MaxVal}

IdsArguments ==
  {NoIds} \cup {Ids(S) : S \in {T \in SUBSET Questions : Cardinality(T) <= MaxIds}}

Dispatched == {toIndex[i] : i \in 1..(nextIdx - 1)}

\* The positions inside a synchronous stretch of a unit of work: from the
\* call of awaitIndexing, or from the results of a poll round, to the end of
\* the onProgress callback nothing else of the process runs.
SyncPositions == {"call", "cbUpdate", "cbPersist"}

\* No unit of work is inside a synchronous stretch: the event loop is free to
\* run another continuation.
LoopFree == \A q \in Questions : pc[q] \notin SyncPositions

\* No stop was requested; a request records the units of work in flight.
NoStop == [requested |-> FALSE, inflight |-> {}]

\* The state of an invocation that has not started any work.
FreshWork ==
  /\ nextIdx' = 1
  /\ inflight' = {}
  /\ fatal' = FALSE
  /\ pc' = [q \in Questions |-> "idle"]
  /\ call' = [q \in Questions |-> NoCall]
  /\ progress' = [q \in Questions |-> NoProgress]
  /\ lastProgress' = [q \in Questions |-> NoProgress]
  /\ awaited' = {}
  /\ wrote' = FALSE
  /\ errors' = {}
  /\ stop' = NoStop

NoneEligibleNever(ti) == FALSE

\* toIndex.length === 0
NoneEligible(ti) == Len(ti) = 0

\* runIndexingPhase is invoked: the eligible questions are selected; with none
\* it returns at once, otherwise concurrency is resolved, the tracker is built
\* and displayed, and the executor is entered.
StartRun(qids, cli, pd, ready) ==
  /\ runner # "executing"
  /\ runs < MaxRuns
  /\ provider # "supermemory" => ready
  /\ runs' = runs + 1
  /\ questionIds' = qids
  /\ clientReady' = ready
  /\ cpAtStart' = checkpoint
  /\ toIndex' = ToIndex(checkpoint, qids)
  /\ IF NoneEligible(ToIndex(checkpoint, qids))
     THEN /\ runner' = "returned"
          /\ concurrency' = 0
          /\ tracker' = EmptyFn
          /\ totalEpisodes' = 0
          /\ lastDisplayed' = <<>>
     ELSE /\ runner' = "executing"
          /\ concurrency' = ExecConcurrency(cli, pd)
          /\ tracker' = TrackerNew(ToIndex(checkpoint, qids))
          /\ totalEpisodes' = SumCounts(SeqToSet(ToIndex(checkpoint, qids)))
          /\ lastDisplayed' = display(tracker', totalEpisodes', <<>>)
  /\ FreshWork
  /\ UNCHANGED <<ingest, checkpoint, provider, rvars, lvars, tvars, avars, bvars>>

\* ConcurrentExecutor.execute starts the next item while fewer than
\* `concurrency` are in flight, no unit of work has thrown and no stop was
\* requested.
CanDispatchUnbounded ==
  runner = "executing" /\ LoopFree /\ ~fatal /\ nextIdx <= Len(toIndex)

CanDispatchIgnoringStop ==
  /\ runner = "executing"
  /\ LoopFree
  /\ ~fatal
  /\ nextIdx <= Len(toIndex)
  /\ Cardinality(inflight) < concurrency

CanDispatch ==
  /\ runner = "executing"
  /\ LoopFree
  /\ ~fatal
  /\ ~stop.requested
  /\ nextIdx <= Len(toIndex)
  /\ Cardinality(inflight) < concurrency

\* The unit of work of a question with nothing to index: it is marked
\* completed and the work returns without calling the provider.
DispatchShortcut ==
  /\ CanDispatch
  /\ LET q == toIndex[nextIdx]
     IN /\ TakesShortcut(q)
        /\ checkpoint' = updatePhase(checkpoint, q, ShortcutPartial)
        /\ tracker' = markQuestionDone(tracker, q)
        /\ pc' = [pc EXCEPT ![q] = "done"]
  /\ nextIdx' = nextIdx + 1
  /\ wrote' = TRUE
  /\ UNCHANGED <<ingest, provider, clientReady, runner, runs, questionIds, cpAtStart,
                 toIndex, concurrency, inflight, fatal, call, progress, lastProgress,
                 totalEpisodes, lastDisplayed, awaited, errors, stop, rvars, lvars, tvars, avars, bvars>>

\* The unit of work of a question with episodes starts: in_progress is
\* persisted with empty id lists, lastProgress is initialised.
DispatchAwait ==
  /\ CanDispatch
  /\ LET q == toIndex[nextIdx]
     IN /\ ~TakesShortcut(q)
        /\ checkpoint' = updatePhase(checkpoint, q, StartPartial)
        /\ lastProgress' = [lastProgress EXCEPT
                              ![q] = Progress(<<>>, <<>>, getEpisodeCount(q))]
        /\ pc' = [pc EXCEPT ![q] = "call"]
        /\ inflight' = inflight \cup {q}
  /\ nextIdx' = nextIdx + 1
  /\ wrote' = TRUE
  /\ UNCHANGED <<ingest, provider, clientReady, runner, runs, questionIds, cpAtStart,
                 toIndex, concurrency, fatal, call, progress, tracker,
                 totalEpisodes, lastDisplayed, awaited, errors, stop, rvars, lvars, tvars, avars, bvars>>

\* provider.awaitIndexing is entered, up to its first onProgress call.
AwaitCall(q) ==
  /\ runner = "executing"
  /\ pc[q] = "call"
  /\ awaited' = awaited \cup {q}
  /\ IF provider = "supermemory" /\ ~clientReady
     THEN \* throw new Error("Provider not initialized")
          /\ pc' = [pc EXCEPT ![q] = "catch"]
          /\ UNCHANGED <<call, progress>>
     ELSE IF provider = "silent"
     THEN \* an implementation that returns without calling onProgress
          /\ pc' = [pc EXCEPT ![q] = "returned"]
          /\ UNCHANGED <<call, progress>>
     ELSE IF provider = "agent-memory"
     THEN /\ call' = [call EXCEPT ![q] = NoCall]
          /\ progress' = [progress EXCEPT
                            ![q] = Progress(documentIds(q), <<>>, ingest[q].docs)]
          /\ pc' = [pc EXCEPT ![q] = "cbUpdate"]
     ELSE /\ call' = [call EXCEPT ![q] = [pending |-> 1..ingest[q].docs,
                                          completedIds |-> <<>>,
                                          failedIds |-> <<>>]]
          /\ progress' = [progress EXCEPT ![q] = Progress(<<>>, <<>>, ingest[q].docs)]
          /\ pc' = [pc EXCEPT ![q] = "cbUpdate"]
  /\ UNCHANGED <<ingest, checkpoint, provider, clientReady, runner, runs, questionIds,
                 cpAtStart, toIndex, concurrency, nextIdx, inflight, fatal,
                 lastProgress, tracker, totalEpisodes, lastDisplayed, wrote, errors, stop, rvars, lvars, tvars, avars, bvars>>

\* One round of the polling loop, up to its onProgress call.
Poll(q) ==
  /\ runner = "executing"
  /\ pc[q] = "poll"
  /\ LoopFree
  /\ \E out \in [call[q].pending -> PollOutcomes(provider)] :
       /\ call' = [call EXCEPT ![q] = PollRound(provider, call[q], out)]
       /\ progress' = [progress EXCEPT
                         ![q] = Progress(call'[q].completedIds, call'[q].failedIds,
                                         ingest[q].docs)]
  /\ pc' = [pc EXCEPT ![q] = "cbUpdate"]
  /\ UNCHANGED <<ingest, checkpoint, provider, clientReady, runner, runs, questionIds,
                 cpAtStart, toIndex, concurrency, nextIdx, inflight, fatal,
                 lastProgress, tracker, totalEpisodes, lastDisplayed, awaited, wrote,
                 errors, stop, rvars, lvars, tvars, avars, bvars>>

\* The onProgress callback, first half: lastProgress = progress and
\* tracker.update(questionId, progress), which displays the aggregate.
CallbackUpdate(q) ==
  /\ runner = "executing"
  /\ pc[q] = "cbUpdate"
  /\ lastProgress' = [lastProgress EXCEPT ![q] = progress[q]]
  /\ tracker' = TrackerUpdate(tracker, q, progress[q])
  /\ lastDisplayed' = display(tracker', totalEpisodes, lastDisplayed)
  /\ pc' = [pc EXCEPT ![q] = "cbPersist"]
  /\ UNCHANGED <<ingest, checkpoint, provider, clientReady, runner, runs, questionIds,
                 cpAtStart, toIndex, concurrency, nextIdx, inflight, fatal, call,
                 progress, totalEpisodes, awaited, wrote, errors, stop, rvars, lvars, tvars, avars, bvars>>

\* The onProgress callback, second half: updatePhase with the partial lists;
\* then awaitIndexing goes on (another round while ids are pending) or returns.
CallbackPersist(q) ==
  /\ runner = "executing"
  /\ pc[q] = "cbPersist"
  /\ checkpoint' = updatePhase(checkpoint, q, CallbackPartial(progress[q]))
  /\ wrote' = TRUE
  /\ progress' = [progress EXCEPT ![q] = NoProgress]
  /\ pc' = [pc EXCEPT ![q] = IF call[q].pending = {} THEN "returned" ELSE "poll"]
  /\ UNCHANGED <<ingest, provider, clientReady, runner, runs, questionIds, cpAtStart,
                 toIndex, concurrency, nextIdx, inflight, fatal, call, lastProgress,
                 tracker, totalEpisodes, lastDisplayed, awaited, errors, stop, rvars, lvars, tvars, avars, bvars>>

\* awaitIndexing returned: completed is persisted with lastProgress's lists
\* and the unit of work ends.
Complete(q) ==
  /\ runner = "executing"
  /\ pc[q] = "returned"
  /\ LoopFree
  /\ \E d \in 0..MaxElapsed :
       checkpoint' = updatePhase(checkpoint, q, CompletedPartial(lastProgress[q], d))
  /\ wrote' = TRUE
  /\ pc' = [pc EXCEPT ![q] = "done"]
  /\ inflight' = inflight \ {q}
  /\ UNCHANGED <<ingest, provider, clientReady, runner, runs, questionIds, cpAtStart,
                 toIndex, concurrency, nextIdx, fatal, call, progress, lastProgress,
                 tracker, totalEpisodes, lastDisplayed, awaited, errors, stop, rvars, lvars, tvars, avars, bvars>>

\* awaitIndexing threw: failed is persisted with the error and the unit of
\* work rethrows; the executor stops scheduling.
Catch(q) ==
  /\ runner = "executing"
  /\ pc[q] = "catch"
  /\ LoopFree
  /\ checkpoint' = updatePhase(checkpoint, q, FailedPartial)
  /\ wrote' = TRUE
  /\ pc' = [pc EXCEPT ![q] = "failed"]
  /\ inflight' = inflight \ {q}
  /\ fatal' = TRUE
  /\ errors' = errors \cup {IndexingError(q, "error")}
  /\ UNCHANGED <<ingest, provider, clientReady, runner, runs, questionIds, cpAtStart,
                 toIndex, concurrency, nextIdx, call, progress, lastProgress,
                 tracker, totalEpisodes, lastDisplayed, awaited, stop, rvars, lvars, tvars, avars, bvars>>

\* The executor has run every item, or was told to stop and has drained:
\* tracker.finish() and the phase returns.
ExecReturn ==
  /\ runner = "executing"
  /\ LoopFree
  /\ ~fatal
  /\ nextIdx > Len(toIndex) \/ stop.requested
  /\ inflight = {}
  /\ runner' = "returned"
  /\ UNCHANGED <<ingest, checkpoint, provider, clientReady, runs, questionIds,
                 cpAtStart, toIndex, concurrency, nextIdx, inflight, fatal, pc, call,
                 progress, lastProgress, tracker, totalEpisodes, lastDisplayed,
                 awaited, wrote, errors, stop, rvars, lvars, tvars, avars, bvars>>

\* A unit of work threw and the items in flight have drained: the executor
\* rethrows and the phase ends with the error.
ExecThrow ==
  /\ runner = "executing"
  /\ LoopFree
  /\ fatal
  /\ inflight = {}
  /\ runner' = "threw"
  /\ UNCHANGED <<ingest, checkpoint, provider, clientReady, runs, questionIds,
                 cpAtStart, toIndex, concurrency, nextIdx, inflight, fatal, pc, call,
                 progress, lastProgress, tracker, totalEpisodes, lastDisplayed,
                 awaited, wrote, errors, stop, rvars, lvars, tvars, avars, bvars>>

\* The process is killed: what is in memory is lost, the persisted
\* checkpoint stays.
Crash ==
  /\ runner = "executing"
  /\ runner' = "crashed"
  /\ toIndex' = <<>>
  /\ concurrency' = 0
  /\ tracker' = EmptyFn
  /\ totalEpisodes' = 0
  /\ lastDisplayed' = <<>>
  /\ questionIds' = NoIds
  /\ clientReady' = TRUE
  /\ cpAtStart' = checkpoint
  /\ FreshWork
  /\ UNCHANGED <<ingest, checkpoint, provider, runs, rvars, lvars, tvars, avars, bvars>>

(***************************************************************************)
(* IndexingProgressTracker called directly (part_000, lines 14-86).        *)
(***************************************************************************)
MaxOps == 3       \* calls made on one tracker
MaxReported == 2  \* longest completedIds list and largest total of an update

\* The IndexingProgress values handed to update.
TrackerProgress ==
  {Progress([i \in 1..c |-> i], [i \in 1..f |-> MaxReported + i], t) :
     c \in 0..MaxReported, f \in 0..1, t \in 0..MaxReported}

NoArg == [questionId |-> 0, progress |-> NoProgress]

NoAgg == [completed |-> 0, failed |-> 0, total |-> 0]

WritesAlways(tr, tot, last) == 1

\* display(): one process.stdout.write when the readout differs from
\* lastDisplayed, none otherwise.
Writes(tr, tot, last) ==
  IF DisplayStr(getAggregated(tr, tot)) # last THEN 1 ELSE 0

(***************************************************************************)
(* Provider.awaitIndexing called on its own: data.                         *)
(***************************************************************************)
MaxAwaitIds == 2    \* distinct document ids
MaxAwaitDocs == 3   \* length of result.documentIds
MaxCounted == 3     \* callbacks and rounds are counted up to this

SupermemoryInitialMs == 1000
SupermemoryFactorNum == 6    \* backoffMs * 1.2
SupermemoryFactorDen == 5
Mem0InitialMs == 500
Mem0FactorNum == 3           \* backoffMs * 1.5
Mem0FactorDen == 2
BackoffCapMs == 5000

\* Delays are counted in units of 1/BackoffScale ms, which makes every value
\* below the cap an integer: 1000 * 1.2^k for k <= 8 and 500 * 1.5^k for k <= 5.
BackoffScale == (5 ^ 5) * (2 ^ 3)

AwaitIds == 1..MaxAwaitIds

\* result.documentIds: ids in the order they were created, repeats allowed.
AwaitDocLists ==
  {d \in UNION {[1..n -> AwaitIds] : n \in 0..MaxAwaitDocs} :
     \A i \in 1..(Len(d) - 1) : d[i] <= d[i + 1]}

InitialBackoff(prov) ==
  (IF prov = "supermemory" THEN SupermemoryInitialMs ELSE Mem0InitialMs) * BackoffScale

FactorNum(prov) == IF prov = "supermemory" THEN SupermemoryFactorNum ELSE Mem0FactorNum

FactorDen(prov) == IF prov = "supermemory" THEN SupermemoryFactorDen ELSE Mem0FactorDen

BackoffCap == BackoffCapMs * BackoffScale

\* The backoff as it would be with a fixed interval.
NextBackoffFixed(prov, b) == b

\* backoffMs = Math.min(backoffMs * factor, 5000)
NextBackoff(prov, b) ==
  LET grown == (b * FactorNum(prov)) \div FactorDen(prov)
  IN IF grown < BackoffCap THEN grown ELSE BackoffCap

NoneBefore == [completed |-> {}, failed |-> {}]

\* The first onProgress argument as it would be with the distinct ids as total.
FirstProgressDistinct(docs) == Progress(<<>>, <<>>, Cardinality(SeqToSet(docs)))

\* onProgress?.({ completedIds: [], failedIds: [], total })
FirstProgress(docs) == Progress(<<>>, <<>>, Len(docs))

InitAwaitIdle ==
  /\ aProvider = "agent-memory"
  /\ aClient = TRUE
  /\ aDocs = <<>>
  /\ aPc = "idle"
  /\ aCall = NoCall
  /\ aBackoff = 0
  /\ aDelay = 0
  /\ aOut = <<>>
  /\ aCb = NoProgress
  /\ aCbs = "none"
  /\ aBefore = NoneBefore
  /\ aFirst = NoProgress
  /\ aCbN = 0
  /\ aRounds = 0

(***************************************************************************)
(* LongMemEval search-batch.sh: the search checkpoint.                     *)
(***************************************************************************)
NumBatch == 3       \* questions in the position range
MaxBatchRuns == 3   \* times the script is started with the same arguments

BatchPositions == 1..NumBatch

\* QUESTION_ID of a position: the base name of its question file.
QuestionIdAt(i) == i

NoSearchFile == [exists |-> FALSE, questions |-> <<>>]

\* jq ".questions[] | select(.questionId == id) | .status": the statuses of
\* the entries of the id, in order.
RECURSIVE StatusesOf(_, _)
StatusesOf(qs, id) ==
  IF qs = <<>> THEN <<>>
  ELSE IF qs[1].questionId = id
       THEN <<qs[1].status>> \o StatusesOf(Tail(qs), id)
       ELSE StatusesOf(Tail(qs), id)

\* The update as it would be if it always added an entry.
update_search_checkpointAppend(qs, id, status, now) ==
  Append(qs, [questionId |-> id, status |-> status, timestamp |-> now])

\* update_search_checkpoint: the entries of the id get the status and the
\* timestamp; with no such entry one is added at the end.
update_search_checkpoint(qs, id, status, now) ==
  IF Len(StatusesOf(qs, id)) > 0
  THEN [i \in 1..Len(qs) |->
          IF qs[i].questionId = id
          THEN [questionId |-> id, status |-> status, timestamp |-> now]
          ELSE qs[i]]
  ELSE Append(qs, [questionId |-> id, status |-> status, timestamp |-> now])

\* [ "$STATUS" == "completed" ]
AlreadySearched(qs, id) == StatusesOf(qs, id) = <<"completed">>

BatchOff == {"off", "exited", "killed"}

InitBatchIdle ==
  /\ bFile = NoSearchFile
  /\ bPc = "off"
  /\ bIdx = 1
  /\ bRuns = 0
  /\ bAtStart = <<>>
  /\ bSearched = {}
  /\ bResults = [i \in BatchPositions |-> "none"]

InitTrackerIdle ==
  /\ tOps = 0
  /\ tOp = "none"
  /\ tArg = NoArg
  /\ tAgg = NoAgg
  /\ tWrites = 0
  /\ tLatest = EmptyFn

(***************************************************************************)
(* LoCoMo ingest script (benchmarks/LoCoMo/scripts/ingest/ingest.ts) and   *)
(* its CheckpointManager (benchmarks/LoCoMo/scripts/utils/checkpoint.ts).  *)
(***************************************************************************)
NumSessions == 3    \* session files of the conversation
MaxIngestRuns == 3  \* times the script is started for one (conversationId, runId)

SessionNumbers == 1..NumSessions

\* conversation_turns.length of a session file.
TurnsOf(s) == s - 1

\* A session as the initialisation loop pushes it.
PendingSession(s) ==
  [sessionNumber |-> s, sessionKey |-> s, turnsTotal |-> TurnsOf(s),
   turnsIngested |-> 0, status |-> "pending"]

NewSessions == [s \in SessionNumbers |-> PendingSession(s)]

\* JSON.stringify of the sessions: per session the set of its key/value
\* pairs; JSON.parse builds the objects back from the pairs.
Stringify(sess) == [s \in DOMAIN sess |-> {<<k, sess[s][k]>> : k \in DOMAIN sess[s]}]

Parse(text) ==
  [s \in DOMAIN text |->
     [k \in {p[1] : p \in text[s]} |-> (CHOOSE p \in text[s] : p[1] = k)[2]]]

NoFile == [exists |-> FALSE, text |-> <<>>]

saveCheckpointNever(file, sess) == file

\* CheckpointManager.saveCheckpoint: the file is written with the JSON text.
saveCheckpoint(file, sess) == [exists |-> TRUE, text |-> Stringify(sess)]

\* CheckpointManager.loadCheckpoint: the parsed file, or null.
loadCheckpoint(file) ==
  IF file.exists THEN [found |-> TRUE, sessions |-> Parse(file.text)]
  ELSE [found |-> FALSE, sessions |-> <<>>]

LoadOrInitialiseFresh(file) == NewSessions

\* "Load or initialize checkpoint": the loaded sessions; with no file (or no
\* session in it) every session file is pushed as pending.
LoadOrInitialise(file) ==
  IF loadCheckpoint(file).found /\ Len(loadCheckpoint(file).sessions) # 0
  THEN loadCheckpoint(file).sessions
  ELSE NewSessions

SkipsNone(session) == FALSE

\* session.status === 'completed'
Skips(session) == session.status = "completed"

\* The writes runIngestion makes to a session.
MarkInProgress(session) == [status |-> "in_progress"] @@ session

MarkMissing(session) == [status |-> "failed", error |-> "Session file not found"] @@ session

MarkIngested(session, turns, now) ==
  [status |-> "completed", turnsIngested |-> turns, timestamp |-> now] @@ session

\* The failure write as it would be if it set the error only.
MarkFailedNoStatus(session) == [error |-> "Failed to ingest"] @@ session

MarkFailed(session) == [status |-> "failed", error |-> "Failed to ingest"] @@ session

\* The exit status as it would be if it did not depend on the failures.
ExitStatusAlwaysZero(failed) == 0

\* process.exit(success ? 0 : 1), success being failedCount === 0
ExitStatus(failed) == IF failed = 0 THEN 0 ELSE 1

\* The script is not running.
IngestOff == {"off", "exited", "killed"}

\* The script has not been started and there is no checkpoint file.
InitScriptOff ==
  /\ checkpointFile = NoFile
  /\ sessions = <<>>
  /\ sessionIdx = 1
  /\ ingestPc = "off"
  /\ ingestRuns = 0
  /\ loaded = <<>>
  /\ posted = [s \in SessionNumbers |-> "none"]
  /\ completedCount = 0
  /\ failedCount = 0
  /\ skippedCount = 0
  /\ exitCode = -1

InitIngestIdle ==
  /\ InitTrackerIdle
  /\ InitAwaitIdle
  /\ InitBatchIdle
  /\ InitScriptOff

\* A run-level stop is requested while the executor runs.
StopRequest ==
  /\ runner = "executing"
  /\ LoopFree
  /\ ~stop.requested
  /\ stop' = [requested |-> TRUE, inflight |-> inflight]
  /\ UNCHANGED <<ingest, checkpoint, provider, clientReady, runner, runs, questionIds,
                 cpAtStart, toIndex, concurrency, nextIdx, inflight, fatal, pc, call,
                 progress, lastProgress, tracker, totalEpisodes, lastDisplayed,
                 awaited, wrote, errors, rvars, lvars, tvars, avars, bvars>>

InitResolveIdle ==
  /\ rPhase = "indexing"
  /\ rCli = NoConfig
  /\ rProv = NoConfig
  /\ rResult = 0
  /\ rDone = FALSE

\* A fresh run checkpoint (every indexing state pending) and no invocation.
InitIndexingWith(ing, prov) ==
  /\ ingest = ing
  /\ checkpoint = [q \in Questions |-> PendingState]
  /\ provider = prov
  /\ clientReady = TRUE
  /\ runner = "idle"
  /\ runs = 0
  /\ questionIds = NoIds
  /\ cpAtStart = [q \in Questions |-> PendingState]
  /\ toIndex = <<>>
  /\ concurrency = 0
  /\ nextIdx = 1
  /\ inflight = {}
  /\ fatal = FALSE
  /\ pc = [q \in Questions |-> "idle"]
  /\ call = [q \in Questions |-> NoCall]
  /\ progress = [q \in Questions |-> NoProgress]
  /\ lastProgress = [q \in Questions |-> NoProgress]
  /\ tracker = EmptyFn
  /\ totalEpisodes = 0
  /\ lastDisplayed = <<>>
  /\ awaited = {}
  /\ wrote = FALSE
  /\ errors = {}
  /\ stop = NoStop

Init ==
  /\ InitResolveIdle
  /\ InitIngestIdle
  /\ \E ing \in IngestInputs, prov \in Providers : InitIndexingWith(ing, prov)

Next ==
  \/ \E qids \in IdsArguments, cli \in RunOverrides, pd \in ProviderDefaults,
        ready \in BOOLEAN : StartRun(qids, cli, pd, ready)
  \/ DispatchShortcut
  \/ DispatchAwait
  \/ \E q \in Questions : AwaitCall(q)
  \/ \E q \in Questions : Poll(q)
  \/ \E q \in Questions : CallbackUpdate(q)
  \/ \E q \in Questions : CallbackPersist(q)
  \/ \E q \in Questions : Complete(q)
  \/ \E q \in Questions : Catch(q)
  \/ ExecReturn
  \/ ExecThrow
  \/ Crash

Spec == Init /\ [][Next]_vars

(***************************************************************************)
(* The indexing runner with a provider that never calls onProgress.        *)
(***************************************************************************)
\* Supermemory, and an implementation of Provider whose awaitIndexing returns
\* without a callback (onProgress is an optional parameter).
SilentProviders == {"supermemory", "silent"}

InitSilent ==
  /\ InitResolveIdle
  /\ InitIngestIdle
  /\ \E ing \in IngestInputs, prov \in SilentProviders : InitIndexingWith(ing, prov)

SpecSilent == InitSilent /\ [][Next]_vars

(***************************************************************************)
(* The indexing runner with a run-level stop request.                      *)
(***************************************************************************)
\* Two questions with one document each and one with nothing to index.
StopInputs ==
  [q \in Questions |->
     IF q < NumQuestions THEN OneDocument
     ELSE [status |-> "completed", hasResult |-> FALSE, docs |-> 0, tasks |-> 0]]

InitStop ==
  /\ InitResolveIdle
  /\ InitIngestIdle
  /\ \E prov \in Providers : InitIndexingWith(StopInputs, prov)

NextStop ==
  \/ Next
  \/ StopRequest

SpecStop == InitStop /\ [][NextStop]_vars


(***************************************************************************)
(* resolveConcurrency applied to drawn arguments.                          *)
(***************************************************************************)
OtherPhase(phase) == IF phase = "search" THEN "indexing" ELSE "search"

\* The configurations drawn for a phase: absent, or any object over the
\* phase's field, another phase's field and "default", each field undefined
\* or a number in 0..MaxVal.
ConfigsFor(phase) ==
  {NoConfig} \cup
  {Config(f) : f \in UNION {[S -> 0..MaxVal] :
                              S \in SUBSET {phase, OtherPhase(phase), "default"}}}

InitResolve ==
  /\ rPhase \in PhaseIds
  /\ rCli \in ConfigsFor(rPhase)
  /\ rProv \in ConfigsFor(rPhase)
  /\ rResult = 0
  /\ rDone = FALSE
  /\ InitIndexingWith([q \in Questions |-> OneDocument], "agent-memory")
  /\ InitIngestIdle

ResolveStep ==
  /\ ~rDone
  /\ rResult' = resolveConcurrency(rPhase, rCli, rProv)
  /\ rDone' = TRUE
  /\ UNCHANGED <<rPhase, rCli, rProv, ivars, lvars, tvars, avars, bvars>>

NextResolve == ResolveStep

SpecResolve == InitResolve /\ [][NextResolve]_vars

(***************************************************************************)
(* The LoCoMo ingest script, started again and again on one run id.        *)
(***************************************************************************)
\* The script starts: the checkpoint is loaded or initialised and
\* runIngestion is entered.
IngestStart ==
  /\ ingestPc \in IngestOff
  /\ ingestRuns < MaxIngestRuns
  /\ ingestRuns' = ingestRuns + 1
  /\ sessions' = LoadOrInitialise(checkpointFile)
  /\ loaded' = sessions'
  /\ posted' = [s \in SessionNumbers |-> "none"]
  /\ sessionIdx' = 1
  /\ completedCount' = 0
  /\ failedCount' = 0
  /\ skippedCount' = 0
  /\ exitCode' = -1
  /\ ingestPc' = "loop"
  /\ UNCHANGED <<checkpointFile, rvars, ivars, tvars, avars, bvars>>

\* A completed session is skipped.
SkipSession ==
  /\ ingestPc = "loop"
  /\ sessionIdx <= Len(sessions)
  /\ Skips(sessions[sessionIdx])
  /\ skippedCount' = skippedCount + 1
  /\ sessionIdx' = sessionIdx + 1
  /\ UNCHANGED <<checkpointFile, sessions, ingestPc, ingestRuns, loaded, posted,
                 completedCount, failedCount, exitCode, rvars, ivars, tvars, avars, bvars>>

\* A session that is not completed is taken up: in_progress in memory, then
\* failed when its file is missing, else the ingest request is sent.
BeginSession(present) ==
  /\ ingestPc = "loop"
  /\ sessionIdx <= Len(sessions)
  /\ ~Skips(sessions[sessionIdx])
  /\ IF present
     THEN /\ sessions' = [sessions EXCEPT ![sessionIdx] = MarkInProgress(@)]
          /\ ingestPc' = "fetch"
          /\ UNCHANGED posted
     ELSE /\ sessions' = [sessions EXCEPT ![sessionIdx] = MarkMissing(MarkInProgress(@))]
          /\ ingestPc' = "saveMissing"
          /\ posted' = [posted EXCEPT ![sessionIdx] = "missing"]
  /\ UNCHANGED <<checkpointFile, sessionIdx, ingestRuns, loaded, completedCount,
                 failedCount, skippedCount, exitCode, rvars, ivars, tvars, avars, bvars>>

\* The missing-file branch saves the checkpoint and goes to the next session.
SaveMissing ==
  /\ ingestPc = "saveMissing"
  /\ checkpointFile' = saveCheckpoint(checkpointFile, sessions)
  /\ failedCount' = failedCount + 1
  /\ sessionIdx' = sessionIdx + 1
  /\ ingestPc' = "loop"
  /\ UNCHANGED <<sessions, ingestRuns, loaded, posted, completedCount, skippedCount,
                 exitCode, rvars, ivars, tvars, avars, bvars>>

\* ingestSession returned: true for an ok response, false for any error.
FetchSettled(success) ==
  /\ ingestPc = "fetch"
  /\ IF success
     THEN /\ sessions' = [sessions EXCEPT
                            ![sessionIdx] = MarkIngested(@, TurnsOf(sessionIdx), ingestRuns)]
          /\ completedCount' = completedCount + 1
          /\ UNCHANGED failedCount
     ELSE /\ sessions' = [sessions EXCEPT ![sessionIdx] = MarkFailed(@)]
          /\ failedCount' = failedCount + 1
          /\ UNCHANGED completedCount
  /\ posted' = [posted EXCEPT ![sessionIdx] = IF success THEN "ok" ELSE "fail"]
  /\ ingestPc' = "save"
  /\ UNCHANGED <<checkpointFile, sessionIdx, ingestRuns, loaded, skippedCount,
                 exitCode, rvars, ivars, tvars, avars, bvars>>

\* The checkpoint is saved after the session; a wait follows unless it was
\* the last session.
SaveSession ==
  /\ ingestPc = "save"
  /\ checkpointFile' = saveCheckpoint(checkpointFile, sessions)
  /\ IF sessionIdx < Len(sessions)
     THEN ingestPc' = "wait" /\ UNCHANGED sessionIdx
     ELSE ingestPc' = "loop" /\ sessionIdx' = sessionIdx + 1
  /\ UNCHANGED <<sessions, ingestRuns, loaded, posted, completedCount, failedCount,
                 skippedCount, exitCode, rvars, ivars, tvars, avars, bvars>>

\* The wait between sessions is over.
WaitDone ==
  /\ ingestPc = "wait"
  /\ sessionIdx' = sessionIdx + 1
  /\ ingestPc' = "loop"
  /\ UNCHANGED <<checkpointFile, sessions, ingestRuns, loaded, posted, completedCount,
                 failedCount, skippedCount, exitCode, rvars, ivars, tvars, avars, bvars>>

\* The loop is over: process.exit(success ? 0 : 1).
IngestExit ==
  /\ ingestPc = "loop"
  /\ sessionIdx > Len(sessions)
  /\ exitCode' = ExitStatus(failedCount)
  /\ ingestPc' = "exited"
  /\ UNCHANGED <<checkpointFile, sessions, sessionIdx, ingestRuns, loaded, posted,
                 completedCount, failedCount, skippedCount, rvars, ivars, tvars, avars, bvars>>

\* The process is killed; `sessions` keeps what it had reached in memory.
IngestKill ==
  /\ ingestPc \notin IngestOff
  /\ ingestPc' = "killed"
  /\ UNCHANGED <<checkpointFile, sessions, sessionIdx, ingestRuns, loaded, posted,
                 completedCount, failedCount, skippedCount, exitCode, rvars, ivars, tvars, avars, bvars>>

InitIngest ==
  /\ InitResolveIdle
  /\ InitIndexingWith([q \in Questions |-> OneDocument], "agent-memory")
  /\ InitIngestIdle

NextIngest ==
  \/ IngestStart
  \/ SkipSession
  \/ \E present \in BOOLEAN : BeginSession(present)
  \/ SaveMissing
  \/ \E success \in BOOLEAN : FetchSettled(success)
  \/ SaveSession
  \/ WaitDone
  \/ IngestExit
  \/ IngestKill

SpecIngest == InitIngest /\ [][NextIngest]_vars



(***************************************************************************)
(* The tracker under any sequence of calls.                                *)
(***************************************************************************)
\* The variables of the runner a tracker call leaves alone.
runnerRest == <<ingest, checkpoint, provider, clientReady, runner, runs, questionIds,
                cpAtStart, toIndex, concurrency, nextIdx, inflight, fatal, pc, call,
                progress, lastProgress, awaited, wrote, errors, stop>>

\* new IndexingProgressTracker(questions), for the first `n` questions.
TrackerConstruct(n) ==
  /\ tOp = "none"
  /\ tracker' = TrackerNew([i \in 1..n |-> i])
  /\ totalEpisodes' = SumCounts(1..n)
  /\ lastDisplayed' = <<>>
  /\ tLatest' = [q \in 1..n |-> [completed |-> 0, failed |-> 0]]
  /\ tOps' = 0
  /\ tOp' = "new"
  /\ UNCHANGED <<tArg, tAgg, tWrites, runnerRest, rvars, lvars, avars, bvars>>

\* tracker.update(questionId, progress), display() included.
TrackerUpdateCall(q, p) ==
  /\ tOp # "none"
  /\ tOps < MaxOps
  /\ tracker' = TrackerUpdate(tracker, q, p)
  /\ tWrites' = tWrites + Writes(tracker', totalEpisodes, lastDisplayed)
  /\ lastDisplayed' = display(tracker', totalEpisodes, lastDisplayed)
  /\ tLatest' = IF q \in DOMAIN tLatest
                THEN [tLatest EXCEPT ![q] = [completed |-> Len(p.completedIds),
                                             failed |-> Len(p.failedIds)]]
                ELSE tLatest
  /\ tArg' = [questionId |-> q, progress |-> p]
  /\ tOps' = tOps + 1
  /\ tOp' = "update"
  /\ UNCHANGED <<totalEpisodes, tAgg, runnerRest, rvars, lvars, avars, bvars>>

\* tracker.markQuestionDone(questionId).
TrackerMarkDoneCall(q) ==
  /\ tOp # "none"
  /\ tOps < MaxOps
  /\ tracker' = markQuestionDone(tracker, q)
  /\ tLatest' = IF q \in DOMAIN tLatest
                THEN [tLatest EXCEPT ![q] = [completed |-> tracker[q].total,
                                             failed |-> @.failed]]
                ELSE tLatest
  /\ tOps' = tOps + 1
  /\ tOp' = "markQuestionDone"
  /\ UNCHANGED <<totalEpisodes, lastDisplayed, tArg, tAgg, tWrites, runnerRest,
                 rvars, lvars, avars, bvars>>

\* tracker.getAggregated().
TrackerGetCall ==
  /\ tOp # "none"
  /\ tOps < MaxOps
  /\ tAgg' = getAggregated(tracker, totalEpisodes)
  /\ tOps' = tOps + 1
  /\ tOp' = "getAggregated"
  /\ UNCHANGED <<tracker, totalEpisodes, lastDisplayed, tArg, tWrites, tLatest,
                 runnerRest, rvars, lvars, avars, bvars>>

\* tracker.display().
TrackerDisplayCall ==
  /\ tOp # "none"
  /\ tOps < MaxOps
  /\ tWrites' = tWrites + Writes(tracker, totalEpisodes, lastDisplayed)
  /\ lastDisplayed' = display(tracker, totalEpisodes, lastDisplayed)
  /\ tOps' = tOps + 1
  /\ tOp' = "display"
  /\ UNCHANGED <<tracker, totalEpisodes, tArg, tAgg, tLatest, runnerRest, rvars, lvars, avars, bvars>>

\* The ingest results the tracked questions come with: one document for the
\* first, a full list of documents and any number of tasks for the second.
TrackerInputs ==
  {v \in IngestInputs :
     /\ v[1] = OneDocument
     /\ v[2].hasResult
     /\ v[2].docs = MaxDocs}

InitTracker ==
  /\ InitResolveIdle
  /\ InitIngestIdle
  /\ \E ing \in TrackerInputs : InitIndexingWith(ing, "agent-memory")

NextTracker ==
  \/ \E n \in 0..NumQuestions : TrackerConstruct(n)
  \/ \E q \in Questions, p \in TrackerProgress : TrackerUpdateCall(q, p)
  \/ \E q \in Questions : TrackerMarkDoneCall(q)
  \/ TrackerGetCall
  \/ TrackerDisplayCall

SpecTracker == InitTracker /\ [][NextTracker]_vars


(***************************************************************************)
(* Provider.awaitIndexing called on its own: one call, its callback a      *)
(* recorder.                                                               *)
(***************************************************************************)
\* Everything outside the call.
awaitRest == <<rvars, ivars, lvars, tvars, bvars>>

\* onProgress(p), as the recorder sees it.
Record(p) ==
  /\ aCb' = p
  /\ aCbs' = IF aCbs = "none" THEN "one" ELSE "many"
  /\ aBefore' = IF aCbs = "none" THEN NoneBefore
                ELSE [completed |-> aBefore.completed \cup SeqToSet(aCb.completedIds),
                      failed |-> aBefore.failed \cup SeqToSet(aCb.failedIds)]
  /\ aFirst' = IF aCbs = "none" THEN p ELSE aFirst
  /\ aCbN' = IF aCbN < MaxCounted THEN aCbN + 1 ELSE aCbN

\* The call up to its first await: the client check, the empty-list return,
\* the locals and the first onProgress; AgentMemory's whole body.
AwaitBegin ==
  /\ aPc = "idle"
  /\ IF aProvider = "supermemory" /\ ~aClient
     THEN /\ aPc' = "threw"
          /\ UNCHANGED <<aCall, aBackoff, aCb, aCbs, aBefore, aFirst, aCbN>>
     ELSE IF aProvider = "agent-memory"
     THEN /\ Record(Progress(aDocs, <<>>, Len(aDocs)))
          /\ aPc' = "returned"
          /\ UNCHANGED <<aCall, aBackoff>>
     ELSE IF Len(aDocs) = 0
     THEN /\ Record(Progress(<<>>, <<>>, 0))
          /\ aPc' = "returned"
          /\ UNCHANGED <<aCall, aBackoff>>
     ELSE /\ aCall' = [pending |-> SeqToSet(aDocs), completedIds |-> <<>>,
                       failedIds |-> <<>>]
          /\ aBackoff' = InitialBackoff(aProvider)
          /\ Record(FirstProgress(aDocs))
          /\ aPc' = "polling"
  /\ UNCHANGED <<aProvider, aClient, aDocs, aDelay, aOut, aRounds, awaitRest>>

\* One round of the while loop: the requests for the pending ids settle, the
\* results are classified, onProgress is called, and the timer is set if an
\* id is still pending.
AwaitPoll ==
  /\ aPc = "polling"
  /\ \E out \in [aCall.pending -> PollOutcomes(aProvider)] :
       /\ aOut' = out
       /\ aCall' = PollRound(aProvider, aCall, out)
  /\ Record(Progress(aCall'.completedIds, aCall'.failedIds, Len(aDocs)))
  /\ IF aCall'.pending # {}
     THEN /\ aPc' = "sleeping"
          /\ aDelay' = aBackoff
     ELSE /\ aPc' = "returned"
          /\ aDelay' = aDelay
  /\ aRounds' = IF aRounds < MaxCounted THEN aRounds + 1 ELSE aRounds
  /\ UNCHANGED <<aProvider, aClient, aDocs, aBackoff, awaitRest>>

\* The timer fires: backoffMs grows and the loop tests pending.size again.
AwaitWake ==
  /\ aPc = "sleeping"
  /\ aBackoff' = NextBackoff(aProvider, aBackoff)
  /\ aPc' = "polling"
  /\ UNCHANGED <<aProvider, aClient, aDocs, aCall, aDelay, aOut, aCb, aCbs, aBefore,
                 aFirst, aCbN, aRounds, awaitRest>>

InitAwait ==
  /\ InitResolveIdle
  /\ InitIndexingWith([q \in Questions |-> OneDocument], "agent-memory")
  /\ InitTrackerIdle
  /\ InitBatchIdle
  /\ InitScriptOff
  /\ aProvider \in Providers
  /\ aClient \in BOOLEAN
  /\ aProvider # "supermemory" => aClient
  /\ aDocs \in AwaitDocLists
  /\ aPc = "idle"
  /\ aCall = NoCall
  /\ aBackoff = 0
  /\ aDelay = 0
  /\ aOut = <<>>
  /\ aCb = NoProgress
  /\ aCbs = "none"
  /\ aBefore = NoneBefore
  /\ aFirst = NoProgress
  /\ aCbN = 0
  /\ aRounds = 0

NextAwait ==
  \/ AwaitBegin
  \/ AwaitPoll
  \/ AwaitWake

SpecAwait == InitAwait /\ [][NextAwait]_vars

\* The event loop runs every timer and every settled promise.
SpecAwaitLive == SpecAwait /\ WF_vars(NextAwait)


(***************************************************************************)
(* search-batch.sh, started again and again with the same arguments.       *)
(***************************************************************************)
batchRest == <<rvars, ivars, lvars, tvars, avars>>

\* The script starts: the checkpoint file is created with an empty list
\* unless it exists, and the loop is entered.
BatchStart ==
  /\ bPc \in BatchOff
  /\ bRuns < MaxBatchRuns
  /\ bRuns' = bRuns + 1
  /\ bFile' = IF bFile.exists THEN bFile ELSE [exists |-> TRUE, questions |-> <<>>]
  /\ bAtStart' = bFile'.questions
  /\ bIdx' = 1
  /\ bSearched' = {}
  /\ bResults' = [i \in BatchPositions |-> "none"]
  /\ bPc' = "loop"
  /\ UNCHANGED batchRest

\* A question whose status is completed is skipped.
BatchSkip ==
  /\ bPc = "loop"
  /\ bIdx <= NumBatch
  /\ AlreadySearched(bFile.questions, QuestionIdAt(bIdx))
  /\ bIdx' = bIdx + 1
  /\ UNCHANGED <<bFile, bPc, bRuns, bAtStart, bSearched, bResults, batchRest>>

\* update_search_checkpoint "$QUESTION_ID" "in_progress"
BatchMark ==
  /\ bPc = "loop"
  /\ bIdx <= NumBatch
  /\ ~AlreadySearched(bFile.questions, QuestionIdAt(bIdx))
  /\ bFile' = [bFile EXCEPT !.questions =
                 update_search_checkpoint(@, QuestionIdAt(bIdx), "in_progress", bRuns)]
  /\ bPc' = "marked"
  /\ UNCHANGED <<bIdx, bRuns, bAtStart, bSearched, bResults, batchRest>>

\* bun run scripts/search/search.ts is started.
BatchLaunch ==
  /\ bPc = "marked"
  /\ bSearched' = bSearched \cup {QuestionIdAt(bIdx)}
  /\ bPc' = "search"
  /\ UNCHANGED <<bFile, bIdx, bRuns, bAtStart, bResults, batchRest>>

\* The search ended: completed or failed is written, and after the sleep
\* the loop goes on.
BatchSearchDone(ok) ==
  /\ bPc = "search"
  /\ bFile' = [bFile EXCEPT !.questions =
                 update_search_checkpoint(@, QuestionIdAt(bIdx),
                                          IF ok THEN "completed" ELSE "failed", bRuns)]
  /\ bResults' = [bResults EXCEPT ![bIdx] = IF ok THEN "ok" ELSE "fail"]
  /\ bIdx' = bIdx + 1
  /\ bPc' = "loop"
  /\ UNCHANGED <<bRuns, bAtStart, bSearched, batchRest>>

\* The range is done: the summary is printed and the script ends.
BatchExit ==
  /\ bPc = "loop"
  /\ bIdx > NumBatch
  /\ bPc' = "exited"
  /\ UNCHANGED <<bFile, bIdx, bRuns, bAtStart, bSearched, bResults, batchRest>>

\* The script is killed.
BatchKill ==
  /\ bPc \notin BatchOff
  /\ bPc' = "killed"
  /\ UNCHANGED <<bFile, bIdx, bRuns, bAtStart, bSearched, bResults, batchRest>>

InitBatch ==
  /\ InitResolveIdle
  /\ InitIndexingWith([q \in Questions |-> OneDocument], "agent-memory")
  /\ InitIngestIdle

NextBatch ==
  \/ BatchStart
  \/ BatchSkip
  \/ BatchMark
  \/ BatchLaunch
  \/ \E ok \in BOOLEAN : BatchSearchDone(ok)
  \/ BatchExit
  \/ BatchKill

SpecBatch == InitBatch /\ [][NextBatch]_vars


(***************************************************************************)
(* Properties.                                                             *)
(***************************************************************************)
Active == runner \in {"executing", "returned", "threw"}

\* The units of work that have started and not ended, by their position.
StartedNotEnded ==
  {q \in Questions : pc[q] \in {"call", "cbUpdate", "cbPersist", "poll", "returned", "catch"}}

ToIndexSet == SeqToSet(toIndex)

\* C1: while the executor runs, the units of work that have started and not
\* yet ended are at most `concurrency`, the value runIndexingPhase handed to
\* ConcurrentExecutor.execute.
C1_BoundedConcurrency ==
  runner = "executing" =>
    /\ StartedNotEnded = inflight
    /\ Cardinality(StartedNotEnded) <= concurrency

\* The executor is full (two units in flight at concurrency 2) while a third
\* eligible item waits to be dispatched.
C1_Witness ==
  /\ runner = "executing"
  /\ concurrency = 2
  /\ Len(toIndex) > concurrency
  /\ Cardinality(StartedNotEnded) = concurrency
  /\ nextIdx <= Len(toIndex)

AllCompleted(cp) ==
  \A q \in Questions : ingest[q].status = "completed" /\ cp[q].status = "completed"

\* C2: an invocation that starts with every question's ingest and indexing
\* completed returns without calling provider.awaitIndexing, without calling
\* updatePhase, and leaves the checkpoint as it found it.
C2_IdempotentResume ==
  (Active /\ AllCompleted(cpAtStart)) =>
    /\ runner = "returned"
    /\ awaited = {}
    /\ ~wrote
    /\ Dispatched = {}
    /\ checkpoint = cpAtStart

\* A second invocation, over a checkpoint the first one completed, has returned.
C2_Witness ==
  /\ runs = 2
  /\ runner = "returned"
  /\ AllCompleted(cpAtStart)
  /\ \E q \in Questions : Len(cpAtStart[q].completedIds) > 0

Terminal(q) == checkpoint[q].status \in {"completed", "failed"}

\* C3 as stated: when the phase ends with the error, every dispatched item
\* is completed or failed and every eligible item never dispatched is pending.
C3_NeverDispatchedPending ==
  runner = "threw" =>
    /\ \A q \in Dispatched : Terminal(q)
    /\ \A q \in ToIndexSet \ Dispatched : checkpoint[q].status = "pending"

\* C3 as amended: when the phase ends with the error, every dispatched item
\* is completed or failed and every item never dispatched has the indexing
\* state it had when the invocation began.
C3_FatalHaltsPhase ==
  runner = "threw" =>
    /\ \A q \in Dispatched : Terminal(q)
    /\ \A q \in Questions \ Dispatched : checkpoint[q] = cpAtStart[q]

\* The phase ended with the error after a second dispatched item drained,
\* with a third eligible item never dispatched.
C3_Witness ==
  /\ runner = "threw"
  /\ Cardinality(Dispatched) = 2
  /\ ToIndexSet \ Dispatched # {}
  /\ \A q \in Dispatched : q \in awaited

\* C4: a question whose ingest result is missing or counts zero episodes is
\* never handed to provider.awaitIndexing, and once its unit of work has run
\* its indexing state is completed with empty id lists and durationMs 0.
C4_ZeroEpisodeShortcut ==
  \A q \in Questions :
    (~ingest[q].hasResult \/ ingest[q].docs + ingest[q].tasks = 0) =>
      /\ q \notin awaited
      /\ pc[q] \in {"idle", "done"}
      /\ pc[q] = "done" =>
           /\ checkpoint[q].status = "completed"
           /\ checkpoint[q].completedIds = <<>>
           /\ checkpoint[q].failedIds = <<>>
           /\ checkpoint[q].durationMs = 0

\* Both kinds of zero-episode question have been through their unit of work.
C4_Witness ==
  \E q1, q2 \in Questions :
    /\ pc[q1] = "done" /\ ~ingest[q1].hasResult
    /\ pc[q2] = "done" /\ ingest[q2].hasResult /\ ingest[q2].docs + ingest[q2].tasks = 0

\* The cascade, as the list of places looked at in priority order.
CascadePlaces(phase, cli, pd) ==
  << <<cli, phase>>, <<cli, "default">>, <<pd, phase>>, <<pd, "default">> >>

FirstDefined(places) ==
  IF \E i \in 1..Len(places) : Defined(places[i][1], places[i][2])
  THEN LET i == CHOOSE j \in 1..Len(places) :
                  /\ Defined(places[j][1], places[j][2])
                  /\ \A k \in 1..(j - 1) : ~Defined(places[k][1], places[k][2])
       IN places[i][1].fields[places[i][2]]
  ELSE 1

SearchOverride == Config([k \in {"search"} |-> 4])

SearchProviderDefault == Config([k \in {"search", "default"} |-> IF k = "search" THEN 50 ELSE 10])

\* C5: resolveConcurrency returns the first defined value in the order
\* run-level per-phase, run-level blanket, provider per-phase, provider
\* blanket, 1; and the three examples give 4, 50 and 1.
C5_Cascade ==
  /\ rDone => rResult = FirstDefined(CascadePlaces(rPhase, rCli, rProv))
  /\ resolveConcurrency("search", SearchOverride, SearchProviderDefault) = 4
  /\ resolveConcurrency("search", Config(EmptyFn), SearchProviderDefault) = 50
  /\ resolveConcurrency("search", Config(EmptyFn), Config(EmptyFn)) = 1
  /\ resolveConcurrency("search", NoConfig, NoConfig) = 1

\* The run-level blanket override won over a different provider per-phase default.
C5_Witness ==
  /\ rDone
  /\ ~Defined(rCli, rPhase)
  /\ Defined(rCli, "default")
  /\ Defined(rProv, rPhase)
  /\ rCli.fields["default"] # rProv.fields[rPhase]
  /\ rResult = rCli.fields["default"]

\* C6: the value resolveConcurrency returns is at least 1.
C6_AtLeastOne == rDone => rResult >= 1

\* The callback's counts that the tracker holds for q are in the checkpoint.
DisplayedIsPersisted(q) ==
  /\ tracker[q].completed <= Len(checkpoint[q].completedIds)
  /\ tracker[q].failed <= Len(checkpoint[q].failedIds)

\* C7: at every point of an onProgress callback, what the tracker has
\* displayed for the item is already persisted in the checkpoint.
C7_PersistBeforeDisplay ==
  \A q \in Questions :
    pc[q] \in {"cbUpdate", "cbPersist", "poll", "returned"} => DisplayedIsPersisted(q)

TrackedSum(tr, q) == tr[q].completed + tr[q].failed

C9_PendingOrFailedOnly ==
  Active =>
    /\ ToIndexSet = {q \in Questions : /\ IsTarget(questionIds, q)
                                        /\ ingest[q].status = "completed"
                                        /\ cpAtStart[q].status \in {"pending", "failed"}}
    /\ Dispatched \subseteq ToIndexSet

\* C9 as amended: the items handed to the executor are exactly the targeted
\* items whose ingest is completed and whose indexing is pending, failed or
\* in_progress; only those are dispatched.
C9_Eligibility ==
  Active =>
    /\ ToIndexSet = {q \in Questions :
                       /\ IsTarget(questionIds, q)
                       /\ ingest[q].status = "completed"
                       /\ cpAtStart[q].status \in {"pending", "failed", "in_progress"}}
    /\ Dispatched \subseteq ToIndexSet
    /\ \A q \in Questions \ ToIndexSet : pc[q] = "idle"

\* With a questionIds argument: a targeted in_progress item is dispatched
\* while an untargeted pending item and an item with failed ingest are not.
C9_Witness ==
  /\ Active
  /\ questionIds.given
  /\ \E q \in Dispatched : cpAtStart[q].status = "in_progress"
  /\ \E q \in Questions \ ToIndexSet :
       ingest[q].status = "completed" /\ cpAtStart[q].status # "completed"

InProgressAtStart(q) ==
  /\ cpAtStart[q].status = "in_progress"
  /\ ingest[q].status = "completed"
  /\ IsTarget(questionIds, q)

\* C10: an invocation takes up every targeted item it finds in_progress (with
\* ingest completed): the item is eligible, its unit of work calls
\* awaitIndexing, and a phase that returns has awaited it; an item found
\* completed is not eligible, not awaited and its state is not written.
C10_ResumeAfterHalt ==
  Active =>
    \A q \in Questions :
      /\ InProgressAtStart(q) =>
           /\ q \in ToIndexSet
           /\ q \in Dispatched => (pc[q] = "call" \/ q \in awaited)
           /\ (runner = "returned") => q \in awaited
      /\ cpAtStart[q].status = "completed" =>
           /\ q \notin ToIndexSet
           /\ q \notin awaited
           /\ checkpoint[q] = cpAtStart[q]

\* A resumed invocation returned after awaiting an item it found in_progress,
\* beside an item it found completed.
C10_Witness ==
  /\ runner = "returned"
  /\ \E q \in Questions : InProgressAtStart(q) /\ q \in awaited
  /\ \E q \in Questions : cpAtStart[q].status = "completed"

\* C11: a question whose ingest status is not completed is never handed to
\* provider.awaitIndexing, its unit of work never starts, and its indexing
\* state is never written: it stays as it was created.
C11_IngestBeforeIndexing ==
  \A q \in Questions :
    ingest[q].status # "completed" =>
      /\ q \notin awaited
      /\ q \notin Dispatched
      /\ pc[q] = "idle"
      /\ checkpoint[q] = PendingState

\* An invocation that targeted a question whose ingest failed has returned
\* after indexing another question.
C11_Witness ==
  /\ runner = "returned"
  /\ awaited # {}
  /\ \E q \in Questions : ingest[q].status = "failed" /\ IsTarget(questionIds, q)
  /\ \E q \in Questions : checkpoint[q].status = "completed"

\* The unit of work of q writes in_progress in this step: the write at its
\* start, or the write of an onProgress callback.
WritesInProgress(q) ==
  \/ pc[q] = "idle" /\ pc'[q] = "call"
  \/ pc[q] = "cbPersist" /\ pc'[q] \in {"poll", "returned"}

\* C12 as stated: every write of in_progress finds the item's indexing
\* status pending or failed.
C12_FromPendingOrFailed ==
  [][\A q \in Questions :
       WritesInProgress(q) =>
         /\ checkpoint'[q].status = "in_progress"
         /\ checkpoint[q].status \in {"pending", "failed"}]_vars

\* C12 as amended: every write of in_progress finds the item's indexing
\* status pending, failed or in_progress, never completed; the write at the
\* start of a unit of work finds what the invocation found (an in_progress
\* item is one a killed run left behind), and a callback's write finds
\* in_progress.
C12_InProgressTransition ==
  [][\A q \in Questions :
       WritesInProgress(q) =>
         /\ checkpoint'[q].status = "in_progress"
         /\ checkpoint[q].status \in {"pending", "failed", "in_progress"}
         /\ pc[q] = "idle" => checkpoint[q].status = cpAtStart[q].status
         /\ pc[q] = "cbPersist" => checkpoint[q].status = "in_progress"
         /\ (checkpoint[q].status = "in_progress" /\ pc[q] = "idle") => runs > 1]_vars

\* A resumed invocation is polling an item it found failed.
C12_Witness ==
  \E q \in Questions :
    /\ cpAtStart[q].status = "failed"
    /\ checkpoint[q].status = "in_progress"
    /\ pc[q] = "poll"

\* C13: an item's indexing status is completed only if the item has zero
\* episodes, or its failedIds is empty and its completedIds has one id per
\* episode counted for the item.
C13_CompletedMeansAllSucceeded ==
  \A q \in Questions :
    checkpoint[q].status = "completed" =>
      \/ getEpisodeCount(q) = 0
      \/ /\ checkpoint[q].failedIds = <<>>
         /\ Len(checkpoint[q].completedIds) = getEpisodeCount(q)


\* The status changes that advance a phase state or retry it from failed.
ForwardOrRetry ==
  {<<"pending", "in_progress">>, <<"pending", "completed">>,
   <<"in_progress", "completed">>, <<"in_progress", "failed">>,
   <<"failed", "in_progress">>, <<"failed", "completed">>}

C15_FailureFatalAndRecorded ==
  /\ \A q \in Questions :
       pc[q] = "failed" =>
         /\ checkpoint[q].status = "failed"
         /\ "error" \in DOMAIN checkpoint[q]
         /\ fatal
         /\ \E e \in errors : e.questionId = q /\ e.cause = checkpoint[q].error
  /\ \A e \in errors : e.hint = ResumeHint /\ pc[e.questionId] = "failed"
  /\ runner = "threw" =>
       /\ errors # {}
       /\ \A q \in awaited : checkpoint[q].status # "in_progress"
  /\ runner = "returned" => errors = {}
  /\ \A q \in Questions : (pc[q] = "catch" /\ fatal) => runner = "executing"

\* The phase ended with the error of an item whose awaitIndexing threw,
\* after another item was completed.
C15_Witness ==
  /\ runner = "threw"
  /\ \E q \in awaited : pc[q] = "failed" /\ cpAtStart[q].status = "pending"
  /\ \E q \in Questions : pc[q] = "done"

\* The targeted items that are eligible when the invocation begins.
EligibleAtStart ==
  {q \in Questions : /\ IsTarget(questionIds, q)
                     /\ ingest[q].status = "completed"
                     /\ cpAtStart[q].status # "completed"}

\* C16: an invocation that finds no eligible item has returned without a
\* write to the checkpoint, without resolving concurrency, without a tracker,
\* without dispatching an item and without a provider call.
C16_EmptyEligibleSet ==
  (Active /\ EligibleAtStart = {}) =>
    /\ runner = "returned"
    /\ ~wrote
    /\ checkpoint = cpAtStart
    /\ concurrency = 0
    /\ tracker = EmptyFn
    /\ Dispatched = {}
    /\ awaited = {}

\* An invocation targeted at a question whose ingest failed returned at once
\* although an untargeted question was waiting to be indexed.
C16_Witness ==
  /\ runner = "returned"
  /\ EligibleAtStart = {}
  /\ questionIds.given
  /\ \E q \in questionIds.ids : ingest[q].status = "failed"
  /\ \E q \in Questions : ingest[q].status = "completed" /\ cpAtStart[q].status = "pending"


\* C17: when a pass of the ingest script has run to its end, every session
\* is completed or failed: failed where this pass's attempt failed (request
\* failed or file missing), completed where it succeeded; a failure did not
\* keep any later session from being attempted; and a session the pass found
\* completed was not ingested again and is exactly as it was found.
C17_PartialFailureIsolation ==
  ingestPc = "exited" =>
    /\ checkpointFile.exists /\ Parse(checkpointFile.text) = sessions
    /\ \A s \in SessionNumbers :
         /\ sessions[s].status \in {"completed", "failed"}
         /\ posted[s] \in {"fail", "missing"} => sessions[s].status = "failed"
         /\ posted[s] = "ok" => sessions[s].status = "completed"
         /\ loaded[s].status = "completed" => (posted[s] = "none" /\ sessions[s] = loaded[s])
         /\ loaded[s].status # "completed" => posted[s] # "none"

\* A second pass ended: it found session k failed (not the last one) and
\* every other session completed, and brought k to completed.
C17_Witness ==
  /\ ingestPc = "exited"
  /\ ingestRuns = 2
  /\ \E k \in 1..(NumSessions - 1) :
       /\ loaded[k].status = "failed"
       /\ sessions[k].status = "completed"
       /\ \A s \in SessionNumbers \ {k} : loaded[s].status = "completed"

\* The sessions whose state in the process's memory is not the state a
\* restart would load.
Lacking == {s \in DOMAIN sessions : sessions[s] # LoadOrInitialise(checkpointFile)[s]}

\* C18: at every point of the ingest script, killed or not, the persisted
\* checkpoint differs from what the process has reached in at most one
\* session, the one being processed; once a session's save is done
\* every outcome reached is persisted.
C18_PerItemPersistence ==
  /\ Cardinality(Lacking) <= 1
  /\ \A s \in Lacking : s = sessionIdx
  /\ ingestPc \in {"loop", "wait", "exited"} => Lacking = {}

\* The process was killed after the third session reached its outcome and
\* before the save: the persisted checkpoint holds the outcomes of the first
\* two sessions and lacks only the third.
C18_Witness ==
  /\ ingestPc = "killed"
  /\ ingestRuns = 1
  /\ Lacking = {NumSessions}
  /\ sessions[NumSessions].status \in {"completed", "failed"}
  /\ checkpointFile.exists
  /\ \A s \in 1..(NumSessions - 1) :
       Parse(checkpointFile.text)[s].status \in {"completed", "failed"}

\* C19: when the script starts and a checkpoint file exists for the run id,
\* the sessions it works on are the sessions read from the file, with every
\* status as persisted, and the file is left as it is; reading back what
\* saveCheckpoint writes gives the sessions that were written.
C19_LoadOrInitIdempotent ==
  [][/\ (ingestPc \in IngestOff /\ ingestPc' = "loop" /\ checkpointFile.exists) =>
          /\ sessions' = Parse(checkpointFile.text)
          /\ checkpointFile' = checkpointFile
          /\ \A s \in SessionNumbers :
               \E pair \in checkpointFile.text[s] :
                 pair = <<"status", sessions'[s].status>>
     /\ loadCheckpoint(saveCheckpoint(checkpointFile', sessions')).sessions = sessions']_vars

\* The script was started again on a checkpoint file that holds a completed,
\* a failed and a pending session.
C19_Witness ==
  /\ ingestRuns >= 2
  /\ ingestPc = "loop"
  /\ sessionIdx = 1
  /\ skippedCount = 0
  /\ checkpointFile.exists
  /\ sessions = loaded
  /\ {loaded[s].status : s \in SessionNumbers} = {"completed", "failed", "pending"}

\* The fields of the partial state the unit of work of q hands to updatePhase
\* in this step; none when it makes no call.
WrittenKeys(q) ==
  IF pc[q] = "idle" /\ pc'[q] = "done" THEN DOMAIN ShortcutPartial
  ELSE IF pc[q] = "idle" /\ pc'[q] = "call" THEN DOMAIN StartPartial
  ELSE IF pc[q] = "cbPersist" /\ pc'[q] \in {"poll", "returned"}
       THEN DOMAIN CallbackPartial(NoProgress)
  ELSE IF pc[q] = "returned" /\ pc'[q] = "done" THEN DOMAIN CompletedPartial(NoProgress, 0)
  ELSE IF pc[q] = "catch" /\ pc'[q] = "failed" THEN DOMAIN FailedPartial
  ELSE {}

\* C20: each updatePhase call of the runner, whichever worker makes it,
\* leaves in the item's indexing PhaseState every field the partial does not
\* name, adds or replaces the fields it names, changes no other question's
\* state and no ingest state; a step without a call changes nothing.
C20_UpdatePhaseMerges ==
  [][/\ ingest' = ingest
     /\ Cardinality({q \in Questions : checkpoint'[q] # checkpoint[q]}) <= 1
     /\ \A q \in Questions :
          /\ DOMAIN checkpoint'[q] = DOMAIN checkpoint[q] \cup WrittenKeys(q)
          /\ \A k \in DOMAIN checkpoint[q] \ WrittenKeys(q) :
               checkpoint'[q][k] = checkpoint[q][k]]_vars

\* Two workers interleave: one item is completed and still carries the
\* startedAt of its start write and the error of an earlier failed attempt,
\* while another item is between two polls.
C20_Witness ==
  \E q1, q2 \in Questions :
    /\ checkpoint[q1].status = "completed"
    /\ "startedAt" \in DOMAIN checkpoint[q1]
    /\ "error" \in DOMAIN checkpoint[q1]
    /\ pc[q2] = "poll"
    /\ checkpoint[q2].status = "in_progress"


\* C21: once a stop request is seen no item is dispatched; the phase returns
\* only when no unit of work is in flight, every unit that was in flight at
\* the request has written completed or failed, and every item not dispatched
\* is as the invocation found it.
C21_CooperativeStop ==
  [][/\ (stop.requested /\ stop'.requested) => nextIdx' = nextIdx
     /\ (runner' = "returned" /\ stop'.requested) =>
          /\ inflight' = {}
          /\ \A q \in stop'.inflight : checkpoint'[q].status \in {"completed", "failed"}
          /\ \A q \in Dispatched : checkpoint'[q].status \in {"completed", "failed"}
          /\ \A q \in Questions \ Dispatched : checkpoint'[q] = cpAtStart'[q]]_vars

\* A stop requested after the first dispatch, with that item in flight: the
\* phase returned after the item was completed, leaving two items undispatched.
C21_Witness ==
  /\ runner = "returned"
  /\ stop.requested
  /\ stop.inflight # {}
  /\ Cardinality(Dispatched) = 1
  /\ Len(toIndex) = 3
  /\ \A q \in stop.inflight : checkpoint[q].status = "completed"

\* A call was made on the tracker in this step.
TrackerCalled == tOps' = tOps + 1

\* The sum of a field of the counts last given, over the tracked questions.
RECURSIVE SumLatest(_, _)
SumLatest(S, field) ==
  IF S = {} THEN 0
  ELSE LET x == CHOOSE y \in S : TRUE
       IN tLatest[x][field] + SumLatest(S \ {x}, field)

\* C22: update replaces the counts of a tracked item by the lengths of the
\* lists it is given (an unknown item changes nothing); getAggregated returns
\* the sums of the counts last given per item and the sum of the episode
\* counts precomputed at construction, and changes no state.
C22_SnapshotSemantics ==
  [][TrackerCalled =>
       /\ tOp' = "update" =>
            /\ tArg'.questionId \in DOMAIN tracker =>
                 /\ tracker'[tArg'.questionId].completed = Len(tArg'.progress.completedIds)
                 /\ tracker'[tArg'.questionId].failed = Len(tArg'.progress.failedIds)
            /\ \A q \in DOMAIN tracker \ {tArg'.questionId} : tracker'[q] = tracker[q]
            /\ DOMAIN tracker' = DOMAIN tracker
       /\ tOp' = "getAggregated" =>
            /\ tAgg'.completed = SumLatest(DOMAIN tLatest, "completed")
            /\ tAgg'.failed = SumLatest(DOMAIN tLatest, "failed")
            /\ tAgg'.total = SumCounts(DOMAIN tracker)
            /\ UNCHANGED <<tracker, totalEpisodes, lastDisplayed, tWrites>>]_vars

\* After an update of 2 completed and a later update of 1 completed for the
\* same item, getAggregated returned 1 completed for two tracked questions.
C22_Witness ==
  /\ tOps = 3
  /\ tOp = "getAggregated"
  /\ Cardinality(DOMAIN tracker) = 2
  /\ tArg.questionId = 1
  /\ Len(tArg.progress.completedIds) = 1
  /\ tAgg.completed = 1
  /\ tAgg.total > 1

\* C23: the tracker's entry of every item whose unit of work ended with
\* completed has completed equal to total, and when the phase has returned
\* with every item done the aggregated completed equals the aggregated total.
C23_FinishedItemsClamped ==
  /\ \A q \in DOMAIN tracker :
       (runner \in {"executing", "returned"} /\ pc[q] = "done") =>
         tracker[q].completed = tracker[q].total
  /\ (runner = "returned" /\ ~stop.requested /\ toIndex # <<>>) =>
       getAggregated(tracker, totalEpisodes).completed
         = getAggregated(tracker, totalEpisodes).total

\* The readout of the tracker as it is after the step.
ReadoutAfter == DisplayStr(getAggregated(tracker', totalEpisodes'))

\* C24: a call that displays (display, or update through display) writes
\* once if the readout differs from the last one written and not at all
\* otherwise, and remembers the readout; other calls write nothing; a display
\* call right after a displaying call writes nothing, and the first two
\* display calls on a new tracker write exactly once.
C24_RenderOnChange ==
  [][TrackerCalled =>
       /\ tOp' \in {"display", "update"} =>
            /\ tWrites' = tWrites + (IF ReadoutAfter # lastDisplayed THEN 1 ELSE 0)
            /\ lastDisplayed' = ReadoutAfter
       /\ tOp' \notin {"display", "update"} =>
            /\ tWrites' = tWrites
            /\ lastDisplayed' = lastDisplayed
       /\ (tOp' = "display" /\ tOp \in {"display", "update"}) => tWrites' = tWrites
       /\ (tOp' = "display" /\ tOp = "display" /\ tOps' = 2) => tWrites' = 1]_vars

\* Two display calls on a new tracker, one write.
C24_Witness ==
  /\ tOps = 2
  /\ tOp = "display"
  /\ tWrites = 1
  /\ lastDisplayed = DisplayStr(getAggregated(tracker, totalEpisodes))
  /\ totalEpisodes > 0

\* C27: when runIndexingPhase is given a questionIds subset, only items of
\* the subset are dispatched, and the indexing state of every item outside
\* it is as it was when the call started, whatever its status.
C27_TargetedSubset ==
  (Active /\ questionIds.given) =>
    /\ Dispatched \subseteq questionIds.ids
    /\ \A q \in Questions \ questionIds.ids : checkpoint[q] = cpAtStart[q]

\* A call for a subset has returned after completing an item of it, with an
\* ingested item outside the subset left failed or in_progress.
C27_Witness ==
  /\ runner = "returned"
  /\ questionIds.given
  /\ \E q \in questionIds.ids : q \in Dispatched /\ checkpoint[q].status = "completed"
  /\ \E q \in Questions \ questionIds.ids :
       /\ ingest[q].status = "completed"
       /\ checkpoint[q].status \in {"failed", "in_progress"}

Polling == aProvider \in {"supermemory", "mem0"}

\* C25: each onProgress call of awaitIndexing carries, in each of its two
\* lists, every id the earlier calls carried in that list, and no id is in
\* both lists.
C25_CumulativeCallbacks ==
  aCbs = "many" =>
    /\ aBefore.completed \subseteq SeqToSet(aCb.completedIds)
    /\ aBefore.failed \subseteq SeqToSet(aCb.failedIds)
    /\ SeqToSet(aCb.completedIds) \cap SeqToSet(aCb.failedIds) = {}

\* A callback that carries an id more than the earlier ones did, which
\* carried a completed id.
C25_Witness ==
  /\ aCbs = "many"
  /\ aBefore.completed # {}
  /\ aCb.failedIds # <<>>
  /\ Len(aCb.completedIds) + Len(aCb.failedIds)
       > Cardinality(aBefore.completed \cup aBefore.failed)

\* C26: in the polling providers the delay of each sleep is the initial
\* value for the first sleep and the previous delay times the factor
\* afterwards, capped at 5000 ms, so it never decreases and never exceeds the
\* cap; a sleep begins only with an id still pending.
C26_CappedBackoff ==
  [][(aPc = "polling" /\ aPc' = "sleeping") =>
       /\ aCall'.pending # {}
       /\ aDelay' >= aDelay
       /\ aDelay' <= BackoffCapMs * BackoffScale
       /\ aDelay = 0 => aDelay' = InitialBackoff(aProvider)
       /\ aDelay # 0 =>
            \/ /\ aDelay' * FactorDen(aProvider) = aDelay * FactorNum(aProvider)
               /\ aDelay' > aDelay
            \/ /\ aDelay' = BackoffCapMs * BackoffScale
               /\ aDelay * FactorNum(aProvider)
                    >= BackoffCapMs * BackoffScale * FactorDen(aProvider)]_vars

\* Supermemory sleeps for 5000 ms, which takes nine sleeps of growth.
C26_Witness ==
  /\ aProvider = "supermemory"
  /\ aPc = "sleeping"
  /\ aDelay = BackoffCapMs * BackoffScale
  /\ aCall.pending # {}

Distinct(s) == Cardinality(SeqToSet(s)) = Len(s)

Partition ==
  (Polling /\ aPc \in {"polling", "sleeping", "returned"}) =>
    /\ aCall.pending \cap SeqToSet(aCall.completedIds) = {}
    /\ aCall.pending \cap SeqToSet(aCall.failedIds) = {}
    /\ SeqToSet(aCall.completedIds) \cap SeqToSet(aCall.failedIds) = {}
    /\ aCall.pending \cup SeqToSet(aCall.completedIds) \cup SeqToSet(aCall.failedIds)
         = SeqToSet(aDocs)
    /\ Distinct(aCall.completedIds)
    /\ Distinct(aCall.failedIds)

LeavesOnce ==
  aPc # "idle" =>
    /\ aCall'.pending \subseteq aCall.pending
    /\ SubSeq(aCall'.completedIds, 1, Len(aCall.completedIds)) = aCall.completedIds
    /\ SubSeq(aCall'.failedIds, 1, Len(aCall.failedIds)) = aCall.failedIds
    /\ Len(aCall'.completedIds) + Len(aCall'.failedIds)
         = Len(aCall.completedIds) + Len(aCall.failedIds)
           + Cardinality(aCall.pending \ aCall'.pending)
    /\ \A d \in aCall.pending \ aCall'.pending :
         d \in SeqToSet(aCall'.completedIds) \cup SeqToSet(aCall'.failedIds)

\* C28: throughout the polling providers' awaitIndexing, pending,
\* completedIds and failedIds are pairwise disjoint and together hold the
\* distinct document ids; an id that leaves pending never returns to it and
\* is appended once, to one of the two lists.
C28_PollingPartition == []Partition /\ [][LeavesOnce]_vars

\* A call for a list with a repeated id has returned with one id completed
\* and one failed.
C28_Witness ==
  /\ Polling
  /\ aPc = "returned"
  /\ Len(aDocs) > Cardinality(SeqToSet(aDocs))
  /\ aCall.completedIds # <<>>
  /\ aCall.failedIds # <<>>

\* The last round's request for d yielded a terminal status of the document
\* (Supermemory) or of the event (Mem0).
DocTerminalReported(d) ==
  /\ d \in DOMAIN aOut
  /\ aOut[d].settled = "fulfilled"
  /\ IF aProvider = "supermemory"
     THEN aOut[d].docStatus \in {"done", "failed"}
     ELSE aOut[d].status \in {"SUCCEEDED", "FAILED"}

\* The last round's request for d yielded what the loop takes an id out of
\* pending for: a failed document or memory, or both done (Supermemory); a
\* SUCCEEDED or FAILED event (Mem0).
Settling(d) ==
  /\ d \in DOMAIN aOut
  /\ aOut[d].settled = "fulfilled"
  /\ IF aProvider = "supermemory"
     THEN \/ aOut[d].docStatus = "failed"
          \/ aOut[d].memStatus = "failed"
          \/ aOut[d].docStatus = "done" /\ aOut[d].memStatus = "done"
     ELSE aOut[d].status \in {"SUCCEEDED", "FAILED"}

ReturnedAllReported ==
  /\ aPc = "returned"
  /\ Len(aCb.completedIds) + Len(aCb.failedIds) = Cardinality(SeqToSet(aDocs))

\* C29 as stated: awaitIndexing of an initialized polling provider returns only
\* with nothing pending, and if every document id eventually reports a terminal
\* document or event status, the call eventually returns with its last
\* callback carrying as many ids as there are distinct document ids.
C29_ReturnsWhenDocsTerminal ==
  /\ [](aPc = "returned" => aCall.pending = {})
  /\ (/\ Polling
      /\ aClient
      /\ \A d \in AwaitIds : (d \in SeqToSet(aDocs) => <>DocTerminalReported(d)))
       => <>ReturnedAllReported

\* C29, amended: the same for an initialized provider, when every document
\* id eventually gets a poll result that settles it (for Supermemory a
\* failed document or memory, or document and memory both done).
C29_PollingTermination ==
  /\ [](aPc = "returned" => aCall.pending = {})
  /\ (/\ Polling
      /\ aClient
      /\ \A d \in AwaitIds : (d \in SeqToSet(aDocs) => <>Settling(d)))
       => <>ReturnedAllReported

\* Supermemory's call has returned after at least two sleeps, for a list
\* with a repeated id and two distinct ones.
C29_Witness ==
  /\ aProvider = "supermemory"
  /\ aPc = "returned"
  /\ aDelay > InitialBackoff(aProvider)
  /\ Len(aDocs) > Cardinality(SeqToSet(aDocs))
  /\ Cardinality(SeqToSet(aDocs)) = MaxAwaitIds
  /\ Len(aCb.completedIds) + Len(aCb.failedIds) = MaxAwaitIds

\* A status request that rejected, or returned a status that is not terminal.
Tolerated(prov, o) ==
  \/ o.settled = "rejected"
  \/ /\ prov = "supermemory"
     /\ \/ o.docStatus \notin {"done", "failed"}
        \/ o.docStatus = "done" /\ o.memStatus \notin {"done", "failed"}
  \/ /\ prov = "mem0"
     /\ o.status \notin {"SUCCEEDED", "FAILED"}

\* C30: in a poll round every pending id is requested; an id whose request
\* rejected or returned a non-terminal or unknown status stays pending, is in
\* neither list, and the call neither throws nor returns: it sleeps and
\* polls again.
C30_PollErrorsTolerated ==
  [][(aPc = "polling" /\ aPc' # "polling") =>
       /\ DOMAIN aOut' = aCall.pending
       /\ \A d \in aCall.pending :
            Tolerated(aProvider, aOut'[d]) =>
              /\ d \in aCall'.pending
              /\ d \notin SeqToSet(aCall'.completedIds) \cup SeqToSet(aCall'.failedIds)
              /\ aPc' = "sleeping"]_vars

\* A round in which one request rejected and another id completed, after a
\* sleep.
C30_Witness ==
  /\ aPc = "sleeping"
  /\ aDelay > InitialBackoff(aProvider)
  /\ \E d \in DOMAIN aOut : aOut[d].settled = "rejected" /\ d \in aCall.pending
  /\ \E d \in DOMAIN aOut : d \in SeqToSet(aCall.completedIds)

\* C31: in a poll round of Supermemory, a document whose document status or
\* memory status is failed is moved to failedIds, a document is moved to
\* completedIds only if both statuses are done, and any other document,
\* one that is done with its memory not yet done included, stays pending.
C31_SupermemoryClassification ==
  [][(aProvider = "supermemory" /\ aPc = "polling" /\ aPc' # "polling") =>
       \A d \in aCall.pending :
         LET o == aOut'[d]
             anyFailed == o.docStatus = "failed" \/ o.memStatus = "failed"
             bothDone == o.docStatus = "done" /\ o.memStatus = "done"
         IN o.settled = "fulfilled" =>
              /\ anyFailed =>
                   /\ d \in SeqToSet(aCall'.failedIds)
                   /\ d \notin aCall'.pending
                   /\ d \notin SeqToSet(aCall'.completedIds)
              /\ d \in SeqToSet(aCall'.completedIds) => bothDone
              /\ (bothDone /\ ~anyFailed) =>
                   /\ d \in SeqToSet(aCall'.completedIds)
                   /\ d \notin aCall'.pending
              /\ (~anyFailed /\ ~bothDone) =>
                   /\ d \in aCall'.pending
                   /\ d \notin SeqToSet(aCall'.completedIds) \cup SeqToSet(aCall'.failedIds)]_vars

\* A round in which one document was done with its memory still processing
\* and stays pending, and another was done with a failed memory.
C31_Witness ==
  /\ aProvider = "supermemory"
  /\ aPc = "sleeping"
  /\ \E d \in DOMAIN aOut :
       /\ aOut[d].docStatus = "done"
       /\ aOut[d].memStatus = "processing"
       /\ d \in aCall.pending
  /\ \E d \in DOMAIN aOut :
       /\ aOut[d].docStatus = "done"
       /\ aOut[d].memStatus = "failed"
       /\ d \in SeqToSet(aCall.failedIds)

ListsEmpty(q) ==
  /\ "completedIds" \in DOMAIN checkpoint[q]
  /\ "failedIds" \in DOMAIN checkpoint[q]
  /\ checkpoint[q].completedIds = <<>>
  /\ checkpoint[q].failedIds = <<>>

\* C33: from the dispatch of an item with episodes until awaitIndexing is
\* called for it, the item is persisted as in_progress with empty
\* completedIds and failedIds, whatever an earlier attempt had persisted.
C33_RetryResetsProgress ==
  \A q \in Questions :
    (runner = "executing" /\ pc[q] = "call") =>
      /\ checkpoint[q].status = "in_progress"
      /\ ListsEmpty(q)
      /\ q \notin awaited

\* An item that a crashed invocation left in_progress with a confirmed id
\* has been dispatched again and its persisted lists are empty.
C33_Witness ==
  \E q \in Questions :
    /\ runner = "executing"
    /\ pc[q] = "call"
    /\ cpAtStart[q].status = "in_progress"
    /\ cpAtStart[q].completedIds # <<>>
    /\ checkpoint[q].completedIds = <<>>

\* The id lists of the last onProgress call made for q in this attempt, its
\* unit of work being at the return of awaitIndexing: none for the silent
\* provider, the provider's lists otherwise.
LastCallback(q) ==
  IF provider = "silent" THEN <<>>
  ELSE IF provider = "agent-memory" THEN <<documentIds(q), <<>>>>
  ELSE <<call[q].completedIds, call[q].failedIds>>

\* C34: the write made when awaitIndexing has returned sets the item
\* completed with the completedIds and failedIds of the last onProgress call
\* received for it, and with two empty lists if there was no such call.
C34_FinalEqualsLastSnapshot ==
  [][\A q \in Questions :
       (pc[q] = "returned" /\ pc'[q] = "done") =>
         /\ checkpoint'[q].status = "completed"
         /\ IF LastCallback(q) = <<>>
            THEN /\ checkpoint'[q].completedIds = <<>>
                 /\ checkpoint'[q].failedIds = <<>>
            ELSE /\ checkpoint'[q].completedIds = LastCallback(q)[1]
                 /\ checkpoint'[q].failedIds = LastCallback(q)[2]]_vars

\* Supermemory's call returned with a failed id and the item was completed
\* with it.
C34_Witness ==
  \E q \in Questions :
    /\ provider = "supermemory"
    /\ pc[q] = "done"
    /\ q \in awaited
    /\ checkpoint[q].status = "completed"
    /\ checkpoint[q].failedIds # <<>>

\* The silent provider's call returned and the item was completed with two
\* empty lists.
C34_SilentReached ==
  \E q \in Questions :
    /\ provider = "silent"
    /\ pc[q] = "done"
    /\ q \in awaited
    /\ checkpoint[q].status = "completed"
    /\ ListsEmpty(q)

\* The script is in or after a run.
IngestRan == ingestPc # "off"

Settled == {"completed", "failed"}

\* The status of session s in the checkpoint file, "none" without a file.
PersistedStatus(s) ==
  IF checkpointFile.exists /\ s \in DOMAIN Parse(checkpointFile.text)
  THEN Parse(checkpointFile.text)[s].status
  ELSE "none"

\* Sessions are taken in checkpoint order, one at a time: those before the
\* loop variable are settled, those after it are as loaded, and only the
\* one at the loop variable can be in progress.
InOrderOneAtATime ==
  IngestRan =>
    \A s \in DOMAIN sessions :
      /\ s < sessionIdx => sessions[s].status \in Settled
      /\ s > sessionIdx => sessions[s] = loaded[s] /\ posted[s] = "none"
      /\ sessions[s].status = "in_progress" => s = sessionIdx

\* A session loaded as completed is never touched and no request is made
\* for it.
SkippedUntouched ==
  IngestRan =>
    \A s \in DOMAIN loaded :
      loaded[s].status = "completed" => sessions[s] = loaded[s] /\ posted[s] = "none"

\* When the script has exited every session is settled and every session
\* loaded as pending or failed was attempted.
AllAttemptedAtExit ==
  ingestPc = "exited" =>
    \A s \in DOMAIN sessions :
      /\ sessions[s].status \in Settled
      /\ loaded[s].status \in {"pending", "failed"} => posted[s] # "none"

\* Within a run the loop variable never goes back and the outcome of a
\* session's attempt is recorded once.
AttemptedOnce ==
  ingestRuns' = ingestRuns =>
    /\ sessionIdx' >= sessionIdx
    /\ \A s \in SessionNumbers : posted'[s] # posted[s] =>
         /\ posted[s] = "none"
         /\ s = sessionIdx
         /\ loaded[s].status \in {"pending", "failed"}

C37_NoPersistedInProgress ==
  /\ \A s \in SessionNumbers : PersistedStatus(s) \in {"none", "pending", "completed", "failed"}
  /\ IngestRan =>
       \A s \in DOMAIN sessions :
         sessions[s].status = "in_progress" =>
           PersistedStatus(s) \in {"none", loaded[s].status}

\* The process was killed with a session in_progress in memory whose status
\* in the file is still failed.
C37_Witness ==
  /\ ingestPc = "killed"
  /\ \E s \in DOMAIN sessions :
       /\ sessions[s].status = "in_progress"
       /\ PersistedStatus(s) = "failed"
  /\ \E s \in DOMAIN sessions : PersistedStatus(s) = "pending"

\* The entry of an id is in the list at most once.
AtMostOnce(qs) ==
  \A i, j \in 1..Len(qs) : qs[i].questionId = qs[j].questionId => i = j

\* C38: the search checkpoint holds each questionId at most once, whatever
\* the runs; a question whose status is completed is skipped without a
\* search and its entry is left alone; any other question of the range is
\* in_progress in the file when its search starts and completed or failed
\* when it has ended, and the loop goes on after a failed search, so that a
\* run that reaches its end has searched every question that was not
\* completed.
C38_SearchCheckpoint ==
  /\ [](/\ AtMostOnce(bFile.questions)
        /\ \A i \in BatchPositions :
             (bPc # "off" /\ AlreadySearched(bAtStart, QuestionIdAt(i))) =>
               /\ QuestionIdAt(i) \notin bSearched
               /\ \E k \in 1..Len(bFile.questions) :
                    /\ k <= Len(bAtStart)
                    /\ bFile.questions[k] = bAtStart[k]
                    /\ bAtStart[k].questionId = QuestionIdAt(i)
        /\ bPc = "exited" =>
             \A i \in BatchPositions :
               /\ StatusesOf(bFile.questions, QuestionIdAt(i))
                    \in {<<"completed">>, <<"failed">>}
               /\ ~AlreadySearched(bAtStart, QuestionIdAt(i)) =>
                    QuestionIdAt(i) \in bSearched /\ bResults[i] # "none")
  /\ [][/\ \A id \in bSearched' \ bSearched :
             StatusesOf(bFile.questions, id) = <<"in_progress">>
        /\ (bPc = "search" /\ bPc' # "killed") =>
             /\ StatusesOf(bFile'.questions, QuestionIdAt(bIdx))
                  \in {<<"completed">>, <<"failed">>}
             /\ bPc' = "loop"
             /\ bIdx' = bIdx + 1]_vars

\* A later run has reached its end: it skipped a completed question, searched
\* again one that a killed run had left in_progress, and went on after a
\* failed search.
C38_Witness ==
  /\ bPc = "exited"
  /\ bRuns > 1
  /\ \E i \in BatchPositions : AlreadySearched(bAtStart, QuestionIdAt(i))
  /\ \E i \in BatchPositions :
       /\ StatusesOf(bAtStart, QuestionIdAt(i)) = <<"in_progress">>
       /\ bResults[i] = "fail"
       /\ i < NumBatch
       /\ bResults[i + 1] = "ok"
  /\ Len(bFile.questions) = NumBatch

====
